---- MODULE Spec2Model ----
(***************************************************************************)
(* A model of the terminal import session of beets/ui: the multiple-choice *)
(* prompt engine (ui.input_options), the candidate-selection loop          *)
(* (commands.choose_candidate) and the session methods that drive it       *)
(* (TerminalImportSession.choose_match, choose_item, resolve_duplicate).   *)
(*                                                                         *)
(* Text is modelled as a sequence of one-character strings, so that the    *)
(* conversions the code applies to it (strip, lower, int, indexing) are    *)
(* computed and not assumed.                                               *)
(***************************************************************************)
EXTENDS Integers, Sequences, FiniteSets, TLC

(***************************************************************************)
(* Bounds of the model.                                                    *)
(***************************************************************************)
\* Longest candidate list the matcher hands over.
MaxCands == 2

(***************************************************************************)
(* Characters and the str methods the code uses.                           *)
(***************************************************************************)
\* The letters and digits of ASCII, with the case mappings of unicode.upper
\* and unicode.lower on them.
UpperOf ==
       "a" :> "A" @@ "b" :> "B" @@ "c" :> "C" @@ "d" :> "D" @@ "e" :> "E" @@ "f" :> "F"
    @@ "g" :> "G" @@ "h" :> "H" @@ "i" :> "I" @@ "j" :> "J" @@ "k" :> "K" @@ "l" :> "L"
    @@ "m" :> "M" @@ "n" :> "N" @@ "o" :> "O" @@ "p" :> "P" @@ "q" :> "Q" @@ "r" :> "R"
    @@ "s" :> "S" @@ "t" :> "T" @@ "u" :> "U" @@ "v" :> "V" @@ "w" :> "W" @@ "x" :> "X"
    @@ "y" :> "Y" @@ "z" :> "Z"
LowerOf ==
       "A" :> "a" @@ "B" :> "b" @@ "C" :> "c" @@ "D" :> "d" @@ "E" :> "e" @@ "F" :> "f"
    @@ "G" :> "g" @@ "H" :> "h" @@ "I" :> "i" @@ "J" :> "j" @@ "K" :> "k" @@ "L" :> "l"
    @@ "M" :> "m" @@ "N" :> "n" @@ "O" :> "o" @@ "P" :> "p" @@ "Q" :> "q" @@ "R" :> "r"
    @@ "S" :> "s" @@ "T" :> "t" @@ "U" :> "u" @@ "V" :> "v" @@ "W" :> "w" @@ "X" :> "x"
    @@ "Y" :> "y" @@ "Z" :> "z"
DigitValue ==
       "0" :> 0 @@ "1" :> 1 @@ "2" :> 2 @@ "3" :> 3 @@ "4" :> 4 @@ "5" :> 5 @@ "6" :> 6 @@ "7" :> 7 @@ "8" :> 8 @@ "9" :> 9

\* The no-break space u'\xa0', a whitespace character outside ASCII.
NBSP == "NBSP"

\* unicode.isalpha, unicode.isspace, unicode.isdigit, unicode.upper and
\* unicode.lower on one character; unicode.isspace, unicode.strip and
\* unicode.split take the whitespace of Unicode, of the characters drawn the
\* blank and the no-break space.
isalpha(c) == c \in DOMAIN UpperOf \/ c \in DOMAIN LowerOf
isspace(c) == c \in { " ", NBSP }
isdigit(c) == c \in DOMAIN DigitValue
upper(c) == IF c \in DOMAIN UpperOf THEN UpperOf[c] ELSE c
lower(c) == IF c \in DOMAIN LowerOf THEN LowerOf[c] ELSE c

\* s.lower() on a whole string
lowerStr(s) == [i \in 1..Len(s) |-> lower(s[i])]

\* s.strip(): leading and trailing whitespace removed
RECURSIVE lstrip(_)
lstrip(s) == IF s # << >> /\ isspace(Head(s)) THEN lstrip(Tail(s)) ELSE s
RECURSIVE rstrip(_)
rstrip(s) ==
    IF s # << >> /\ isspace(s[Len(s)]) THEN rstrip(SubSeq(s, 1, Len(s) - 1)) ELSE s
strip(s) == rstrip(lstrip(s))

\* The value of a run of decimal digits.
RECURSIVE DigitsValue(_)
DigitsValue(s) ==
    IF s = << >> THEN 0
    ELSE 10 * DigitsValue(SubSeq(s, 1, Len(s) - 1)) + DigitValue[s[Len(s)]]

\* int(s) for a stripped string: an optional sign, any blanks after the
\* sign, and at least one digit; anything else raises ValueError
\* (ok = FALSE).
int(s) ==
    LET signed == Len(s) >= 1 /\ s[1] \in {"+", "-"}
        body   == IF signed THEN lstrip(Tail(s)) ELSE s
        ok     == Len(body) >= 1 /\ \A i \in 1..Len(body) : isdigit(body[i])
    IN  [ok |-> ok,
         n  |-> IF ~ok THEN 0
                ELSE IF signed /\ s[1] = "-" THEN 0 - DigitsValue(body)
                ELSE DigitsValue(body)]

(***************************************************************************)
(* ui.input_options: the multiple-choice prompt engine.                    *)
(***************************************************************************)
\* What a caller passes as `default` / what input_options returns: nothing,
\* an integer, or a one-letter string.
NoValue == [kind |-> "none", n |-> 0, c |-> ""]
IntValue(n) == [kind |-> "int", n |-> n, c |-> ""]
LetterValue(c) == [kind |-> "letter", n |-> 0, c |-> c]

\* numrange=None and numrange=(low, high)
NoRange == [on |-> FALSE, low |-> 0, high |-> 0]
NumRange(low, high) == [on |-> TRUE, low |-> low, high |-> high]

\* Mutant of first_capital: the first alphabetic character, whatever its case.
RECURSIVE first_alpha(_, _)
first_alpha(option, i) ==
    IF i > Len(option) THEN 0
    ELSE IF isalpha(option[i]) THEN i
    ELSE first_alpha(option, i + 1)

\* `for letter in option: if letter.isalpha() and letter.upper() == letter`:
\* the index of the first capitalized letter from i on, 0 when there is none.
RECURSIVE first_capital(_, _)
first_capital(option, i) ==
    IF i > Len(option) THEN 0
    ELSE IF isalpha(option[i]) /\ upper(option[i]) = option[i] THEN i
    ELSE first_capital(option, i + 1)

\* `for letter in option: if not letter.isalpha(): continue; if letter not in
\* letters`: the index of the first letter from i on that is no key of
\* `letters`, 0 when there is none.
RECURSIVE first_free(_, _, _)
first_free(option, letters, i) ==
    IF i > Len(option) THEN 0
    ELSE IF isalpha(option[i]) /\ option[i] \notin letters THEN i
    ELSE first_free(option, letters, i + 1)

\* The shortcut of one option given the letters already taken: the first
\* capitalized letter if there is one, else the first letter not yet a key of
\* `letters`; "" stands for the ValueError raised when there is none.
found_letter(option, letters) ==
    LET cap == first_capital(option, 1)
    IN  IF cap # 0 THEN option[cap]
        ELSE LET free == first_free(option, letters, 1)
             IN  IF free # 0 THEN option[free] ELSE ""

\* Whether an option is displayed as the default one.
is_default(found, first, require, default, numrange) ==
    /\ ~require
    /\ \/ (default.kind = "none" /\ ~numrange.on /\ first)
       \/ (default.kind = "letter" /\ lower(found) = lower(default.c))

\* The loop over the options: the keys of `letters`, display_letters and,
\* per option, whether it is marked as the default.
RECURSIVE assign_letters(_, _, _, _, _, _)
assign_letters(options, k, acc, require, default, numrange) ==
    IF k > Len(options) \/ acc.error THEN acc
    ELSE LET found == found_letter(options[k], acc.letters)
         IN  IF found = "" THEN [acc EXCEPT !.error = TRUE]
             ELSE assign_letters(options, k + 1,
                    [error           |-> FALSE,
                     letters         |-> acc.letters \cup {lower(found)},
                     display_letters |-> Append(acc.display_letters, upper(found)),
                     marked          |-> Append(acc.marked,
                                            is_default(found, k = 1, require, default, numrange))],
                    require, default, numrange)

\* Mutant of effective_default: without a default from the caller the first
\* option is the default, with a numeric range as without.
effective_default_first_letter(require, default, numrange, display_letters) ==
    IF require THEN NoValue
    ELSE IF default.kind = "none"
         THEN LetterValue(lower(display_letters[1]))
         ELSE default

\* The default in force once the options are lettered.
effective_default(require, default, numrange, display_letters) ==
    IF require THEN NoValue
    ELSE IF default.kind = "none"
         THEN IF numrange.on THEN IntValue(numrange.low)
              ELSE LetterValue(lower(display_letters[1]))
         ELSE default

\* The state of one input_options call when it starts to read.
input_options(options, require, numrange, default) ==
    LET acc == assign_letters(options, 1,
                   [error |-> FALSE, letters |-> {}, display_letters |-> << >>,
                    marked |-> << >>],
                   require, default, numrange)
    IN  [active          |-> TRUE,
         error           |-> acc.error,
         options         |-> options,
         letters         |-> acc.letters,
         display_letters |-> acc.display_letters,
         marked          |-> acc.marked,
         require         |-> require,
         numrange        |-> numrange,
         default         |-> IF acc.error THEN NoValue
                             ELSE effective_default(require, default, numrange,
                                                    acc.display_letters)]

NoPrompt ==
    [active |-> FALSE, error |-> FALSE, options |-> << >>, letters |-> {},
     display_letters |-> << >>, marked |-> << >>, require |-> FALSE,
     numrange |-> NoRange, default |-> NoValue]

\* Mutant of read_response: a number is returned without the range check.
read_response_unchecked(io, resp) ==
    LET r1      == lowerStr(strip(resp))
        useDef  == io.default.kind # "none" /\ r1 = << >>
        isInt   == useDef /\ io.default.kind = "int"
        text    == IF useDef /\ io.default.kind = "letter" THEN << io.default.c >> ELSE r1
        parsed  == IF isInt THEN [ok |-> TRUE, n |-> io.default.n] ELSE int(text)
    IN  IF io.numrange.on /\ parsed.ok
        THEN IntValue(parsed.n)
        ELSE IF text # << >> /\ text[1] \in io.letters
             THEN LetterValue(text[1])
             ELSE NoValue

\* Mutant of read_response: any line that starts with a letter is accepted,
\* whether or not the letter is a shortcut.
read_response_any_letter(io, resp) ==
    LET r1      == lowerStr(strip(resp))
        useDef  == io.default.kind # "none" /\ r1 = << >>
        isInt   == useDef /\ io.default.kind = "int"
        text    == IF useDef /\ io.default.kind = "letter" THEN << io.default.c >> ELSE r1
        parsed  == IF isInt THEN [ok |-> TRUE, n |-> io.default.n] ELSE int(text)
    IN  IF io.numrange.on /\ parsed.ok
        THEN IF io.numrange.low <= parsed.n /\ parsed.n <= io.numrange.high
             THEN IntValue(parsed.n)
             ELSE NoValue
        ELSE IF text # << >> /\ isalpha(text[1])
             THEN LetterValue(text[1])
             ELSE NoValue

\* One pass of the read loop on the line `resp`: the value returned, or
\* NoValue when the fallback prompt is printed and another line is read.
read_response(io, resp) ==
    LET r1      == lowerStr(strip(resp))
        useDef  == io.default.kind # "none" /\ r1 = << >>
        isInt   == useDef /\ io.default.kind = "int"
        text    == IF useDef /\ io.default.kind = "letter" THEN << io.default.c >> ELSE r1
        parsed  == IF isInt THEN [ok |-> TRUE, n |-> io.default.n] ELSE int(text)
    IN  IF io.numrange.on /\ parsed.ok
        THEN IF io.numrange.low <= parsed.n /\ parsed.n <= io.numrange.high
             THEN IntValue(parsed.n)
             ELSE NoValue
        ELSE IF text # << >> /\ text[1] \in io.letters
             THEN LetterValue(text[1])
             ELSE NoValue

(***************************************************************************)
(* The data the decision state machine works on.                           *)
(***************************************************************************)
\* beets.autotag.Recommendation, an ordered enumeration.
Recommendation == << "none", "low", "medium", "strong" >>
RecRank(r) == CHOOSE i \in 1..Len(Recommendation) : Recommendation[i] = r
RecLE(r1, r2) == RecRank(r1) <= RecRank(r2)

\* A candidate is known by the matcher result it belongs to (gen) and its
\* rank in that result; a candidate list is the ranked list of one result.
\* The task's list is result "task"; a re-query gives a result other than
\* the task's and other than the one it replaces, so that a candidate of a
\* replaced list is never taken for one of the list in use.
\* The mapping of an AlbumMatch pairs the item of the task with a track
\* titled `title`; a TrackMatch is a track titled `title`.
NoMatch == [gen |-> "", rank |-> 0, title |-> << >>]
Candidates(g, titles) ==
    [i \in 1..Len(titles) |-> [gen |-> g, rank |-> i, title |-> titles[i]]]
NextGen(g) == IF g = "even" THEN "odd" ELSE "even"

\* What choose_candidate, choose_match and choose_item return: an
\* importer.action constant or a match object.
NoDecision == [kind |-> "none", action |-> "", match |-> NoMatch]
Action(a) == [kind |-> "action", action |-> a, match |-> NoMatch]
Match(m) == [kind |-> "match", action |-> "", match |-> m]

\* What is written to the console: messages, candidate lists, change views
\* and prompts; and what is logged (the log handler writes to the console).
Event(ev, what, generation, rank) ==
    [ev |-> ev, what |-> what, gen |-> generation, rank |-> rank]
Message(text) == Event("message", text, "", 0)
LogDebug(text) == Event("log.debug", text, "", 0)
LogInfo(text) == Event("log.info", text, "", 0)
LogWarn(text) == Event("log.warn", text, "", 0)
LogError(text) == Event("log.error", text, "", 0)
CandidatesShown(cands) ==
    Event("candidates", "", IF cands = << >> THEN "" ELSE cands[1].gen, Len(cands))
ChangeShown(m) == Event("change", "", m.gen, m.rank)
PromptShown(where) == Event("prompt", where, "", 0)
InputShown(label) == Event("input", label, "", 0)
FallbackShown == Event("fallback", "", "", 0)

(***************************************************************************)
(* The option lists of the prompts.                                        *)
(***************************************************************************)
nocand_opts_singleton ==
    << << "U", "s", "e", " ", "a", "s", "-", "i", "s" >>,
       << "S", "k", "i", "p" >>,
       << "E", "n", "t", "e", "r", " ", "s", "e", "a", "r", "c", "h" >>,
       << "e", "n", "t", "e", "r", " ", "I", "d" >>,
       << "a", "B", "o", "r", "t" >> >>

nocand_opts_album ==
    << << "U", "s", "e", " ", "a", "s", "-", "i", "s" >>,
       << "a", "s", " ", "T", "r", "a", "c", "k", "s" >>,
       << "G", "r", "o", "u", "p", " ", "a", "l", "b", "u", "m", "s" >>,
       << "S", "k", "i", "p" >>,
       << "E", "n", "t", "e", "r", " ", "s", "e", "a", "r", "c", "h" >>,
       << "e", "n", "t", "e", "r", " ", "I", "d" >>,
       << "a", "B", "o", "r", "t" >> >>

list_opts_singleton ==
    << << "S", "k", "i", "p" >>,
       << "U", "s", "e", " ", "a", "s", "-", "i", "s" >>,
       << "E", "n", "t", "e", "r", " ", "s", "e", "a", "r", "c", "h" >>,
       << "e", "n", "t", "e", "r", " ", "I", "d" >>,
       << "a", "B", "o", "r", "t" >> >>

list_opts_album ==
    << << "S", "k", "i", "p" >>,
       << "U", "s", "e", " ", "a", "s", "-", "i", "s" >>,
       << "a", "s", " ", "T", "r", "a", "c", "k", "s" >>,
       << "G", "r", "o", "u", "p", " ", "a", "l", "b", "u", "m", "s" >>,
       << "E", "n", "t", "e", "r", " ", "s", "e", "a", "r", "c", "h" >>,
       << "e", "n", "t", "e", "r", " ", "I", "d" >>,
       << "a", "B", "o", "r", "t" >> >>

confirm_opts_singleton ==
    << << "A", "p", "p", "l", "y" >>,
       << "M", "o", "r", "e", " ", "c", "a", "n", "d", "i", "d", "a", "t", "e", "s" >>,
       << "S", "k", "i", "p" >>,
       << "U", "s", "e", " ", "a", "s", "-", "i", "s" >>,
       << "E", "n", "t", "e", "r", " ", "s", "e", "a", "r", "c", "h" >>,
       << "e", "n", "t", "e", "r", " ", "I", "d" >>,
       << "a", "B", "o", "r", "t" >> >>

confirm_opts_album ==
    << << "A", "p", "p", "l", "y" >>,
       << "M", "o", "r", "e", " ", "c", "a", "n", "d", "i", "d", "a", "t", "e", "s" >>,
       << "S", "k", "i", "p" >>,
       << "U", "s", "e", " ", "a", "s", "-", "i", "s" >>,
       << "a", "s", " ", "T", "r", "a", "c", "k", "s" >>,
       << "G", "r", "o", "u", "p", " ", "a", "l", "b", "u", "m", "s" >>,
       << "E", "n", "t", "e", "r", " ", "s", "e", "a", "r", "c", "h" >>,
       << "e", "n", "t", "e", "r", " ", "I", "d" >>,
       << "a", "B", "o", "r", "t" >> >>

duplicate_opts ==
    << << "S", "k", "i", "p", " ", "n", "e", "w" >>,
       << "K", "e", "e", "p", " ", "b", "o", "t", "h" >>,
       << "R", "e", "m", "o", "v", "e", " ", "o", "l", "d" >> >>

\* input_yn: `input_options(('y', 'n'), require, prompt, yesno)`
yn_opts == << << "y" >>, << "n" >> >>

\* The console lines the operator may type.
Responses ==
    { <<  >>,
      << "a" >>,
      << "m" >>,
      << "s" >>,
      << "u" >>,
      << "t" >>,
      << "g" >>,
      << "e" >>,
      << "i" >>,
      << "b" >>,
      << "k" >>,
      << "r" >>,
      << "0" >>,
      << "1" >>,
      << "2" >>,
      << "3" >>,
      << " ", "B", " " >>,
      << "u", "p" >>,
      << "1", "x" >>,
      << "+", " ", "2" >> }

\* The lines the operator may type at a yes/no prompt.
YesNoResponses ==
    { << >>,
      << "y" >>,
      << "n" >>,
      << " ", "N", "o" >>,
      << "x" >> }

\* The lines the operator may type as search terms or as an identifier.
SearchInputs ==
    { << " " >>,
      << " ", "q", " " >> }

\* Mutant of nocand_opts: the album options are offered for a singleton too.
nocand_opts_always_album(sing) == nocand_opts_album

nocand_opts(sing) == IF sing THEN nocand_opts_singleton ELSE nocand_opts_album
\* Mutant of list_opts: the options of an album are offered for an item too.
list_opts_always_album(sing) == list_opts_album

list_opts(sing) == IF sing THEN list_opts_singleton ELSE list_opts_album
confirm_opts(sing) == IF sing THEN confirm_opts_singleton ELSE confirm_opts_album

VARIABLES
    config,         \* config['import']: quiet, timid, detail, quiet_fallback, none_rec_action,
                    \* default_action; config['ui']: color, terminal_width, albumdiff layout
    singleton,      \* TRUE in choose_item, FALSE in choose_match
    task,           \* the import task: choice, should_remove_duplicates
    candidates,     \* the candidate list in use: task.candidates, then a re-query's
    rec,            \* the recommendation in use: task.rec, then a re-query's
    match,          \* choose_candidate's `match`
    require,        \* choose_candidate's `require`
    pc,             \* where the session is: idle, waiting at a read, or finished
    prompt,         \* the input_options call that is reading
    out,            \* what the last step wrote to the console, in order
    result,         \* the value returned to the import pipeline
    gen,            \* which matcher result the candidate list in use is
    query,          \* the query the last step sent to the matcher, if any
    search_artist,  \* manual_search's `artist`, read and not yet returned
    sel,            \* what the last input_options call returned
    exit_status,    \* whether main has called sys.exit, and with which status
    call            \* the function call under study outside the import session

vars == << config, singleton, task, candidates, rec, match, require, pc, prompt,
           out, result, gen, query, search_artist, sel, exit_status, call >>

\* The process is running: sys.exit was not called.
Running == [exited |-> FALSE, code |-> 0]
Exited(code) == [exited |-> TRUE, code |-> code]

\* config['ui']: color, the width term_width() gives, and
\* import.albumdiff.layout.
UiConfig(color, terminal_width, layout) ==
    [color |-> color, terminal_width |-> terminal_width, layout |-> layout]

\* No function call is under study.
NoCall == [fn |-> "none"]

\* What the steps of the import session leave alone.
others == << exit_status, call >>

NoQuery == [kind |-> "none", artist |-> << >>, name |-> << >>, id |-> << >>]

(***************************************************************************)
(* commands._summary_judment and the decisions of choose_candidate.        *)
(***************************************************************************)
\* Mutant of summary_judment: quiet mode decides for a strong recommendation
\* only and asks for the other tiers.
summary_judment_quiet_asks(r) ==
    IF config.quiet /\ r = "strong" THEN "APPLY"
    ELSE IF r = "none" /\ ~config.quiet
         THEN CASE config.none_rec_action = "skip" -> "SKIP"
                [] config.none_rec_action = "asis" -> "ASIS"
                [] config.none_rec_action = "ask"  -> ""
         ELSE ""

\* Mutant of summary_judment: none_rec_action is applied to a low
\* recommendation too (`rec <= Recommendation.low`).
summary_judment_low_as_none(r) ==
    IF config.quiet
    THEN IF r = "strong" THEN "APPLY"
         ELSE IF config.quiet_fallback = "skip" THEN "SKIP" ELSE "ASIS"
    ELSE IF RecLE(r, "low")
         THEN CASE config.none_rec_action = "skip" -> "SKIP"
                [] config.none_rec_action = "asis" -> "ASIS"
                [] config.none_rec_action = "ask"  -> ""
         ELSE ""

\* The action decided without asking, "" for None (the operator is asked).
summary_judment(r) ==
    IF config.quiet
    THEN IF r = "strong" THEN "APPLY"
         ELSE IF config.quiet_fallback = "skip" THEN "SKIP" ELSE "ASIS"
    ELSE IF r = "none"
         THEN CASE config.none_rec_action = "skip" -> "SKIP"
                [] config.none_rec_action = "asis" -> "ASIS"
                [] config.none_rec_action = "ask"  -> ""
         ELSE ""

\* What _summary_judment prints for the action it returns.
summary_output(action) ==
    CASE action = "SKIP" -> << Message("Skipping.") >>
      [] action = "ASIS" -> << Message("Importing as-is.") >>
      [] OTHER           -> << >>

\* Mutant of bypass_candidates: the candidate list is bypassed for a strong
\* recommendation only.
bypass_candidates_strong_only(r) == r = "strong"

\* `if rec != Recommendation.none: match = candidates[0]; bypass_candidates = True`
bypass_candidates(r) == r # "none"

\* Mutant of loop_require: the recommendation never requires confirmation.
loop_require_never(r) == FALSE

\* `require = rec <= Recommendation.low`, at the top of every pass of the loop
loop_require(r) == RecLE(r, "low")

\* Mutant of auto_apply: the timid flag is read the wrong way round.
auto_apply_when_timid(r) == r = "strong" /\ config.timid

\* Mutant of auto_apply: the timid flag is not read.
auto_apply_ignores_timid(r) == r = "strong"

\* `if rec == Recommendation.strong and not config['import']['timid']: return match`
auto_apply(r) == r = "strong" /\ ~config.timid

\* config['import']['default_action'].as_choice(...)
confirm_default ==
    CASE config.default_action = "apply" -> LetterValue("a")
      [] config.default_action = "skip"  -> LetterValue("s")
      [] config.default_action = "asis"  -> LetterValue("u")
      [] config.default_action = "none"  -> NoValue

\* Mutant of selection_require: the selection leaves `require` as it is.
selection_require_kept(n, req) == req

\* `if sel != 1: require = True` after a numerical selection
selection_require(n, req) == IF n # 1 THEN TRUE ELSE req

\* How a step of choose_candidate ends: it returns a choice, raises, or
\* waits at a prompt.
Returns(d) == [pc |-> "choice", result |-> d]
Raises(exc) == [pc |-> exc, result |-> NoDecision]
Continues == [pc |-> "loop", result |-> NoDecision]

\* `assert not singleton; return importer.action.TRACKS`
tracks_choice(sing) == IF sing THEN Raises("AssertionError") ELSE Returns(Action("TRACKS"))

\* The branches on `sel` after the no-candidates prompt.
nocand_choice(c, sing) ==
    CASE c = "u" -> Returns(Action("ASIS"))
      [] c = "t" -> tracks_choice(sing)
      [] c = "e" -> Returns(Action("MANUAL"))
      [] c = "s" -> Returns(Action("SKIP"))
      [] c = "b" -> Raises("ImportAbort")
      [] c = "i" -> Returns(Action("MANUAL_ID"))
      [] c = "g" -> Returns(Action("ALBUMS"))
      [] OTHER   -> Raises("AssertionError")

\* The branches on a letter `sel` after the candidate-list prompt; a letter
\* none of them names leads to `candidates[sel - 1]`, a TypeError.
list_choice(c, sing) ==
    CASE c = "s" -> Returns(Action("SKIP"))
      [] c = "u" -> Returns(Action("ASIS"))
      [] c = "m" -> Continues
      [] c = "e" -> Returns(Action("MANUAL"))
      [] c = "t" -> tracks_choice(sing)
      [] c = "b" -> Raises("ImportAbort")
      [] c = "i" -> Returns(Action("MANUAL_ID"))
      [] c = "g" -> Returns(Action("ALBUMS"))
      [] OTHER   -> Raises("TypeError")

\* Mutant of confirm_choice: abort is returned as a decision (skip) and not
\* raised.
confirm_choice_abort_returned(c, sing, m) ==
    CASE c = "a" -> Returns(Match(m))
      [] c = "g" -> Returns(Action("ALBUMS"))
      [] c = "s" -> Returns(Action("SKIP"))
      [] c = "u" -> Returns(Action("ASIS"))
      [] c = "t" -> tracks_choice(sing)
      [] c = "e" -> Returns(Action("MANUAL"))
      [] c = "b" -> Returns(Action("SKIP"))
      [] c = "i" -> Returns(Action("MANUAL_ID"))
      [] OTHER   -> Continues

\* The branches on `sel` after the confirmation prompt; a letter none of
\* them names ('m', More candidates) goes round the loop.
confirm_choice(c, sing, m) ==
    CASE c = "a" -> Returns(Match(m))
      [] c = "g" -> Returns(Action("ALBUMS"))
      [] c = "s" -> Returns(Action("SKIP"))
      [] c = "u" -> Returns(Action("ASIS"))
      [] c = "t" -> tracks_choice(sing)
      [] c = "e" -> Returns(Action("MANUAL"))
      [] c = "b" -> Raises("ImportAbort")
      [] c = "i" -> Returns(Action("MANUAL_ID"))
      [] OTHER   -> Continues

(***************************************************************************)
(* ui.input_options on its own: every option list over a few labels, every *)
(* combination of require, numrange and default, every sequence of lines.  *)
(***************************************************************************)
\* Longest option list of a call under study.
MaxOptions == 3

\* Labels: one capital, no capital, two capitals, a separator, no letter.
PromptLabels ==
    { << "A", "b" >>,
      << "b", "A" >>,
      << "a", "B" >>,
      << "a", "b" >>,
      << "b", "-", "a" >>,
      << "B", "A" >>,
      << "a" >>,
      << "-" >> }

\* The ordered lists of distinct labels, and the lists of the import prompts.
OptionLists ==
    { nocand_opts_singleton, confirm_opts_album, duplicate_opts }
    \cup UNION { { o \in [1..n -> PromptLabels] :
                      \A i, j \in 1..n : i # j => o[i] # o[j] } : n \in 1..MaxOptions }

\* What callers pass as numrange and as default.
PromptRanges == { NoRange, NumRange(1, 2), NumRange(-1, 1) }
PromptDefaults == { NoValue, LetterValue("a"), LetterValue("B"), LetterValue("u"),
                    LetterValue("z") }

\* The lines the operator may type at the prompt under study.
PromptResponses ==
    { << >>,
      << "a" >>,
      << "B" >>,
      << " ", "b", " " >>,
      << "a", "b" >>,
      << "u" >>,
      << "z" >>,
      << "1" >>,
      << "3" >>,
      << " ", "+", " ", "2" >>,
      << "-", "1" >>,
      << "-", " ", "1" >>,
      << "1", "x" >> }

\* A call input_options(options, require, numrange=numrange, default=default);
\* `resp` is the last line it read.
InputOptionsCall(options, req, numrange, default) ==
    [fn |-> "input_options", options |-> options, require |-> req,
     numrange |-> numrange, default |-> default, resp |-> << >>]

InitPrompt ==
    /\ config = [quiet |-> FALSE, timid |-> FALSE, detail |-> FALSE, quiet_fallback |-> "skip",
                 none_rec_action |-> "ask", default_action |-> "apply",
                 ui |-> UiConfig(FALSE, 80, "column")]
    /\ task = [choice |-> "APPLY", should_remove_duplicates |-> FALSE]
    /\ singleton = FALSE
    /\ candidates = << >>
    /\ rec = "none"
    /\ match = NoMatch
    /\ require = FALSE
    /\ pc = "idle"
    /\ prompt = NoPrompt
    /\ out = << >>
    /\ result = NoDecision
    /\ gen = "task"
    /\ query = NoQuery
    /\ search_artist = << >>
    /\ sel = NoValue
    /\ exit_status = Running
    /\ \E o \in OptionLists, req \in BOOLEAN, nr \in PromptRanges, d \in PromptDefaults :
          call = InputOptionsCall(o, req, nr, d)

\* What a step of the call under study leaves alone.
session_vars == << config, singleton, task, candidates, rec, match, require, result,
                   gen, query, search_artist >>

\* input_options up to its first read: the letters are assigned and the
\* prompt is printed, or ValueError is raised.
CallInputOptions ==
    /\ pc = "idle"
    /\ call.fn = "input_options"
    /\ LET io == input_options(call.options, call.require, call.numrange, call.default)
       IN  IF io.error
           THEN /\ pc' = "ValueError"
                /\ prompt' = NoPrompt
                /\ out' = << >>
           ELSE /\ pc' = "read"
                /\ prompt' = io
                /\ out' = << PromptShown("input_options") >>
    /\ UNCHANGED << session_vars, sel, exit_status, call >>

\* One pass of the read loop: the line is accepted and returned, or the
\* fallback prompt is printed and the loop reads again.
ReadLine ==
    /\ pc = "read"
    /\ \E resp \in PromptResponses :
          LET v == read_response(prompt, resp)
          IN  /\ call' = [call EXCEPT !.resp = resp]
              /\ sel' = v
              /\ IF v.kind = "none"
                 THEN /\ out' = << FallbackShown >>
                      /\ UNCHANGED << pc, prompt >>
                 ELSE /\ pc' = "returned"
                      /\ prompt' = NoPrompt
                      /\ out' = << >>
    /\ UNCHANGED << session_vars, exit_status >>

\* input_: raw_input() raises EOFError and UserError leaves input_options.
ReadEnded ==
    /\ pc = "read"
    /\ pc' = "UserError"
    /\ prompt' = NoPrompt
    /\ out' = << >>
    /\ sel' = NoValue
    /\ UNCHANGED << session_vars, exit_status, call >>

NextPrompt ==
    \/ CallInputOptions
    \/ ReadLine
    \/ ReadEnded

SpecPrompt == InitPrompt /\ [][NextPrompt]_vars

(***************************************************************************)
(* ui.colorize, ui.uncolorize and ui.color_len.                            *)
(***************************************************************************)
\* The ESC character "\x1b", one character of a text.
ESC == "ESC"

COLOR_ESCAPE == << ESC, "[" >>

LEGACY_COLORS ==
       "black" :> << "black" >>
    @@ "darkred" :> << "red" >>
    @@ "darkgreen" :> << "green" >>
    @@ "brown" :> << "yellow" >>
    @@ "darkyellow" :> << "yellow" >>
    @@ "darkblue" :> << "blue" >>
    @@ "purple" :> << "magenta" >>
    @@ "darkmagenta" :> << "magenta" >>
    @@ "teal" :> << "cyan" >>
    @@ "darkcyan" :> << "cyan" >>
    @@ "lightgray" :> << "white" >>
    @@ "darkgray" :> << "bold", "black" >>
    @@ "red" :> << "bold", "red" >>
    @@ "green" :> << "bold", "green" >>
    @@ "yellow" :> << "bold", "yellow" >>
    @@ "blue" :> << "bold", "blue" >>
    @@ "fuchsia" :> << "bold", "magenta" >>
    @@ "magenta" :> << "bold", "magenta" >>
    @@ "turquoise" :> << "bold", "cyan" >>
    @@ "cyan" :> << "bold", "cyan" >>
    @@ "white" :> << "bold", "white" >>

ANSI_CODES ==
       "normal" :> 0 @@ "bold" :> 1 @@ "faint" :> 2 @@ "underline" :> 4 @@ "inverse" :> 7
    @@ "black" :> 30 @@ "red" :> 31 @@ "green" :> 32 @@ "yellow" :> 33
    @@ "blue" :> 34 @@ "magenta" :> 35 @@ "cyan" :> 36 @@ "white" :> 37
    @@ "bg_black" :> 40 @@ "bg_red" :> 41 @@ "bg_green" :> 42 @@ "bg_yellow" :> 43
    @@ "bg_blue" :> 44 @@ "bg_magenta" :> 45 @@ "bg_cyan" :> 46 @@ "bg_white" :> 47

RESET_COLOR == COLOR_ESCAPE \o << "3", "9", ";", "4", "9", ";", "0", "0", "m" >>

COLOR_NAMES ==
    << "text_success", "text_warning", "text_error", "text_highlight",
       "text_highlight_minor", "action_default", "action",
       "text", "text_faint",
       "import_path", "import_path_items",
       "action_description",
       "added", "removed", "changed",
       "added_highlight", "removed_highlight", "changed_highlight",
       "text_diff_added", "text_diff_removed", "text_diff_changed" >>

\* "%i" % n for a natural number n
DigitChars == << "0", "1", "2", "3", "4", "5", "6", "7", "8", "9" >>
RECURSIVE format_i(_)
format_i(n) ==
    IF n < 10 THEN << DigitChars[n + 1] >>
    ELSE Append(format_i(n \div 10), DigitChars[(n % 10) + 1])

\* What a call returns or raises.
Returned_(value) == [raised |-> "", value |-> value]
Raised_(exc) == [raised |-> exc, value |-> << >>]

\* `for code in color: escape = escape + COLOR_ESCAPE + "%im" % ANSI_CODES[code]`
RECURSIVE escape(_)
escape(color) ==
    IF color = << >> THEN << >>
    ELSE COLOR_ESCAPE \o format_i(ANSI_CODES[Head(color)]) \o << "m" >> \o escape(Tail(color))

\* _colorize(color, text): `color` is iterated, each element must be a key of
\* ANSI_CODES.
_colorize(color, text) ==
    IF \E i \in 1..Len(color) : color[i] \notin DOMAIN ANSI_CODES
    THEN Raised_("ValueError")
    ELSE Returned_(escape(color) \o text \o RESET_COLOR)

\* A color definition of the configuration: a list of codes, or a string (a
\* legacy color name).
ListDef(codes) == [kind |-> "list", codes |-> codes, name |-> ""]
LegacyDef(name) == [kind |-> "legacy", codes |-> << >>, name |-> name]

\* The names colorize is called with: two roles of COLOR_NAMES, an actual
\* color passed as the role, and the empty string; and what iterating over
\* each as a string gives.
CallNames == { "text_success", "text_error", "red", "" }
Characters ==
       "text_success" :> << "t", "e", "x", "t", "_", "s", "u", "c", "c", "e", "s", "s" >>
    @@ "text_error" :> << "t", "e", "x", "t", "_", "e", "r", "r", "o", "r" >>
    @@ "red" :> << "r", "e", "d" >>
    @@ "" :> << >>

\* The global COLORS: None, or the dict built so far.
NoColors == [none |-> TRUE, dict |-> << >>]
ColorsDict(dict) == [none |-> FALSE, dict |-> dict]

\* `for name in COLOR_NAMES`, from the k-th name on: the definition is read
\* as a string and converted when it is a legacy name, else read as a list.
\* An unknown legacy name reaches `raise ValueError('no such color %s',
\* color)`, where the local `color` is not yet bound.
RECURSIVE read_colors(_, _, _)
read_colors(colors, k, dict) ==
    IF k > Len(COLOR_NAMES) THEN [raised |-> "", dict |-> dict]
    ELSE LET name      == COLOR_NAMES[k]
             color_def == colors[name]
         IN  IF color_def.kind = "legacy"
             THEN IF color_def.name \in DOMAIN LEGACY_COLORS
                  THEN read_colors(colors, k + 1,
                                   (name :> LEGACY_COLORS[color_def.name]) @@ dict)
                  ELSE [raised |-> "UnboundLocalError", dict |-> dict]
             ELSE read_colors(colors, k + 1, (name :> color_def.codes) @@ dict)

\* colorize(color_name, text) under config['ui']['color'] = ui_color and
\* config['ui']['colors'] = colors, with the global COLORS as it stands:
\* what it returns or raises, COLORS afterwards and what it logs.
colorize(ui_color, colors, COLORS, color_name, text) ==
    IF ~ui_color
    THEN [raised |-> "", value |-> text, COLORS |-> COLORS, logged |-> << >>]
    ELSE LET build == COLORS.none \/ DOMAIN COLORS.dict = {}
             read  == IF build THEN read_colors(colors, 1, << >>)
                      ELSE [raised |-> "", dict |-> COLORS.dict]
         IN  IF read.raised # ""
             THEN [raised |-> read.raised, value |-> << >>,
                   COLORS |-> ColorsDict(read.dict), logged |-> << >>]
             ELSE LET color   == IF color_name \in DOMAIN read.dict
                                 THEN read.dict[color_name] ELSE << >>
                      invalid == color = << >>
                      res     == _colorize(IF invalid THEN Characters[color_name] ELSE color,
                                           text)
                  IN  [raised |-> res.raised, value |-> res.value,
                       COLORS |-> ColorsDict(read.dict),
                       logged |-> IF invalid THEN << LogDebug("Invalid color_name") >>
                                  ELSE << >>]

\* Mutant of ansi_code_match: only the sequences that end in the letter m
\* are recognized.
ansi_code_match_m(s) ==
    IF Len(s) >= 3 /\ s[1] = ESC /\ s[2] = "[" /\ s[3] = "m" THEN 3 ELSE 0

\* `[;\d]*` from position i on: the position after the longest run.
RECURSIVE params_end(_, _)
params_end(s, i) ==
    IF i <= Len(s) /\ (s[i] = ";" \/ isdigit(s[i])) THEN params_end(s, i + 1) ELSE i

\* The length of the match of \x1b\[[;\d]*[A-Za-z] at the start of s, 0 when
\* it does not match there.
ansi_code_match(s) ==
    IF Len(s) >= 2 /\ s[1] = ESC /\ s[2] = "["
    THEN LET e == params_end(s, 3)
         IN  IF e <= Len(s) /\ isalpha(s[e]) THEN e ELSE 0
    ELSE 0

\* The least number of a set of numbers.
least(numbers) == CHOOSE k \in numbers : \A n \in numbers : k <= n

\* The least position of a text that holds the character c, the position
\* after the text when none does.
find(s, c) == least({ i \in 1..Len(s) : s[i] = c } \cup { Len(s) + 1 })

\* ansi_code_regex.sub(u'', colored_text): the matches are removed from left
\* to right, in one pass. A match starts at an ESC: the text before the
\* first ESC, at position i, is kept; a match of n characters at that ESC
\* is removed, or the ESC kept when there is none (n = 0); and the same is
\* done with the rest.
RECURSIVE uncolorize(_)
uncolorize_match(rest, n) ==
    IF n > 0 THEN uncolorize(SubSeq(rest, n + 1, Len(rest)))
    ELSE << ESC >> \o uncolorize(Tail(rest))
uncolorize_rest(rest) == uncolorize_match(rest, ansi_code_match(rest))
uncolorize_from(colored_text, i) ==
    IF i > Len(colored_text) THEN colored_text
    ELSE SubSeq(colored_text, 1, i - 1)
         \o uncolorize_rest(SubSeq(colored_text, i, Len(colored_text)))
uncolorize(colored_text) == uncolorize_from(colored_text, find(colored_text, ESC))

color_len(colored_text) == Len(uncolorize(colored_text))

\* Longest text drawn from every sequence over EscapeChars.
MaxText == 3

\* The characters an escape sequence is made of, and the texts colorize is
\* called with: every sequence of them up to MaxText, and some longer texts.
EscapeChars == { ESC, "[", "1", "m" }
ColorTexts ==
    UNION { [1..n -> EscapeChars] : n \in 0..MaxText }
    \cup { << "a", " ", "b" >>,
           << ESC, "[", ";", "K" >>,
           << ESC, "[", "3", "1", ";", "1", "m", "a", ESC, "[", "3", "9", "m" >>,
           << "a", ESC, "[", "1", "x" >>,
           << ESC, "[", "1", " ", "m" >> }

\* The configurations of ui.colors: every role bold red, but for one of two
\* roles defined otherwise.
ColorDefs ==
    { LegacyDef("red"), LegacyDef("pink"), ListDef(<< "pink" >>), ListDef(<< >>),
      ListDef(<< "bg_white", "underline" >>) }
BaseColors == [name \in {COLOR_NAMES[k] : k \in 1..Len(COLOR_NAMES)}
                  |-> ListDef(<< "bold", "red" >>)]
ColorConfigs ==
    { BaseColors }
    \cup { [BaseColors EXCEPT ![name] = d] :
              name \in { "text_success", "text_error" }, d \in ColorDefs }

\* A colorize call and what is done with its result; `ui_color`, `colors` and
\* `COLORS` are the configuration and the global table of the process.
ColorizeCall(ui_color, colors, COLORS) ==
    [fn |-> "colorize", ui_color |-> ui_color, colors |-> colors, COLORS |-> COLORS,
     color_name |-> "", text |-> << >>, raised |-> "", value |-> << >>,
     stripped |-> << >>, length |-> 0]

\* The import session is not running.
NoSession ==
    /\ config = [quiet |-> FALSE, timid |-> FALSE, detail |-> FALSE, quiet_fallback |-> "skip",
                 none_rec_action |-> "ask", default_action |-> "apply",
                 ui |-> UiConfig(FALSE, 80, "column")]
    /\ task = [choice |-> "APPLY", should_remove_duplicates |-> FALSE]
    /\ singleton = FALSE
    /\ candidates = << >>
    /\ rec = "none"
    /\ match = NoMatch
    /\ require = FALSE
    /\ prompt = NoPrompt
    /\ result = NoDecision
    /\ gen = "task"
    /\ query = NoQuery
    /\ search_artist = << >>
    /\ sel = NoValue
    /\ exit_status = Running

InitColor ==
    /\ NoSession
    /\ pc = "idle"
    /\ out = << >>
    /\ \E ui_color \in BOOLEAN, colors \in ColorConfigs :
          call = ColorizeCall(ui_color, colors, NoColors)

\* colorize(color_name, text), the first call of the process or a later one.
Colorize ==
    /\ call.fn = "colorize"
    /\ pc = "idle"
    /\ \E color_name \in CallNames, text \in ColorTexts :
          LET r == colorize(call.ui_color, call.colors, call.COLORS, color_name, text)
          IN  /\ call' = [call EXCEPT !.color_name = color_name, !.text = text,
                                      !.raised = r.raised, !.value = r.value,
                                      !.COLORS = r.COLORS,
                                      !.stripped = << >>, !.length = 0]
              /\ out' = r.logged
              /\ pc' = IF r.raised # "" THEN r.raised ELSE "colorized"
    /\ UNCHANGED << session_vars, prompt, sel, exit_status >>

\* uncolorize applied to what colorize returned.
Uncolorize ==
    /\ call.fn = "colorize"
    /\ pc = "colorized"
    /\ call' = [call EXCEPT !.stripped = uncolorize(call.value)]
    /\ pc' = "uncolorized"
    /\ out' = << >>
    /\ UNCHANGED << session_vars, prompt, sel, exit_status >>

\* color_len applied to what colorize returned.
ColorLen ==
    /\ call.fn = "colorize"
    /\ pc = "uncolorized"
    /\ call' = [call EXCEPT !.length = color_len(call.value)]
    /\ pc' = "measured"
    /\ out' = << >>
    /\ UNCHANGED << session_vars, prompt, sel, exit_status >>

\* The process goes on after the call, returned or raised and caught: the
\* configuration and the global COLORS stay, the call's locals are gone.
GoOn ==
    /\ call.fn = "colorize"
    /\ pc \in {"measured", "ValueError", "UnboundLocalError"}
    /\ call' = ColorizeCall(call.ui_color, call.colors, call.COLORS)
    /\ pc' = "idle"
    /\ out' = << >>
    /\ UNCHANGED << session_vars, prompt, sel, exit_status >>

\* config['ui']['color'] is read by every call: between two calls the
\* process may set it.
ToggleColor ==
    /\ call.fn = "colorize"
    /\ pc = "idle"
    /\ call' = [call EXCEPT !.ui_color = ~@]
    /\ pc' = "idle"
    /\ out' = << >>
    /\ UNCHANGED << session_vars, prompt, sel, exit_status >>

NextColor ==
    \/ Colorize
    \/ Uncolorize
    \/ ColorLen
    \/ GoOn
    \/ ToggleColor

SpecColor == InitColor /\ [][NextColor]_vars

(***************************************************************************)
(* commands.show_change: the two-column layout of the track list.          *)
(***************************************************************************)
\* Mutant of calc_column_width: each column is capped at the naive width on
\* its own.
calc_column_width_capped(col_width, max_width_l, max_width_r) ==
    << IF max_width_l <= col_width THEN max_width_l ELSE col_width,
       IF max_width_r <= col_width THEN max_width_r ELSE col_width >>

\* calc_column_width(col_width, max_width_l, max_width_r): the pair
\* (col_width_l, col_width_r).
calc_column_width(col_width, max_width_l, max_width_r) ==
    IF max_width_l <= col_width /\ max_width_r <= col_width
    THEN << max_width_l, max_width_r >>
    ELSE IF /\ (max_width_l > col_width \/ max_width_r > col_width)
            /\ max_width_l + max_width_r <= col_width * 2
         THEN << max_width_l, max_width_r >>
         ELSE << col_width, col_width >>

\* `joiner_width = len(''.join(['* ', ' -> ']))`
joiner_width == Len(<< "*", " " >> \o << " ", "-", ">", " " >>)

\* `col_width = (terminal_width - indent_width - joiner_width) // 2`
naive_col_width(terminal_width, indent_width) ==
    (terminal_width - indent_width - joiner_width) \div 2

\* Largest of the small content widths drawn.
MaxWidth == 4

\* The content widths, the terminal widths and the indentations drawn: the
\* small ones, and the ones of an 80-column terminal.
ContentWidths == (0..MaxWidth) \cup { 20, 30, 36, 37, 38, 60 }
TerminalWidths == { 8, 11, 80 }
IndentWidths == { 0, 2 }

\* A call calc_column_width(col_width, max_width_l, max_width_r) as
\* show_match_tracks makes it.
ColumnWidthCall(terminal_width, indent_width, max_width_l, max_width_r) ==
    [fn |-> "calc_column_width", terminal_width |-> terminal_width,
     indent_width |-> indent_width,
     col_width |-> naive_col_width(terminal_width, indent_width),
     max_width_l |-> max_width_l, max_width_r |-> max_width_r,
     result |-> << >>]

InitColumns ==
    /\ NoSession
    /\ pc = "idle"
    /\ out = << >>
    /\ \E t \in TerminalWidths, i \in IndentWidths, l \in ContentWidths, r \in ContentWidths :
          call = ColumnWidthCall(t, i, l, r)

CalcColumnWidth ==
    /\ call.fn = "calc_column_width"
    /\ pc = "idle"
    /\ call' = [call EXCEPT !.result = calc_column_width(call.col_width, call.max_width_l,
                                                        call.max_width_r)]
    /\ pc' = "returned"
    /\ out' = << >>
    /\ UNCHANGED << session_vars, prompt, sel, exit_status >>

NextColumns == CalcColumnWidth

SpecColumns == InitColumns /\ [][NextColumns]_vars

(***************************************************************************)
(* ui.colordiff: the word diff of two values.                              *)
(***************************************************************************)
\* The values colordiff is given: a unicode string, a byte string (the str
\* of Python 2, which is its bytes: a path field), a number, None.
Text(s) == [type |-> "unicode", s |-> s, n |-> 0]
Bytes(s) == [type |-> "str", s |-> s, n |-> 0]
Number(n) == [type |-> "int", s |-> << >>, n |-> n]
None == [type |-> "NoneType", s |-> << >>, n |-> 0]

\* A byte outside ASCII, '\xff'; the other bytes of a byte string are
\* written as the ASCII characters they encode.
HighByte == "0xff"

\* isinstance(v, basestring) and isinstance(v, bytes)
is_basestring(v) == v.type \in { "unicode", "str" }
is_bytes(v) == v.type = "str"

\* unicode(v): a unicode string as it is, a byte string decoded as ASCII
\* (UnicodeDecodeError on a byte outside ASCII), the digits of a number,
\* u'None'.
unicode(v) ==
    CASE v.type = "unicode"  -> Returned_(v.s)
      [] v.type = "str"      -> IF \E k \in 1..Len(v.s) : v.s[k] = HighByte
                                THEN Raised_("UnicodeDecodeError")
                                ELSE Returned_(v.s)
      [] v.type = "int"      -> Returned_(format_i(v.n))
      [] v.type = "NoneType" -> Returned_(<< "N", "o", "n", "e" >>)

\* util.displayable_path(path) for a string: the displayable form of a path
\* is unicode text, a unicode string as it is and a byte string decoded; a
\* byte that does not decode has no displayable form and is left out.
displayable_path(path) ==
    IF is_bytes(path) THEN SelectSeq(path.s, LAMBDA byte : byte # HighByte) ELSE path.s

\* s[lo:hi], offsets counted from 0
Slice(s, lo, hi) == SubSeq(s, lo + 1, hi)

\* SequenceMatcher(lambda x: False, a, b) keeps autojunk on: when b has 200
\* elements or more, the elements that occur in it more than
\* len(b) // 100 + 1 times are popular and no match is looked up from them.
\* Nothing is junk.
popular(b) ==
    IF Len(b) >= 200
    THEN { b[k] : k \in { n \in 1..Len(b) :
                            Cardinality({ m \in 1..Len(b) : b[m] = b[n] })
                                > Len(b) \div 100 + 1 } }
    ELSE {}

\* The length of the longest common run of a from offset i and b from
\* offset j, inside a[:ahi] and b[:bhi], of elements that are not in
\* `skipped`: the least k at which the run ends.
common_run(a, b, skipped, i, j, ahi, bhi) ==
    least({ k \in 0..(ahi - i) :
              \/ i + k = ahi
              \/ j + k >= bhi
              \/ a[i + k + 1] # b[j + k + 1]
              \/ b[j + k + 1] \in skipped })

\* The length of the longest common run of a up to offset i and b up to
\* offset j, inside a[alo:] and b[blo:].
common_run_back(a, b, i, j, alo, blo) ==
    least({ k \in 0..(i - alo) :
              \/ i - k = alo
              \/ j - k <= blo
              \/ a[i - k] # b[j - k] })

\* The loop of find_longest_match over a[alo:ahi] and the places of its
\* elements in b[blo:bhi], popular elements left out: the runs (i, j, k) of
\* equal elements, each from where it starts.
runs(a, b, bpopular, alo, ahi, blo, bhi) ==
    { << p[1], p[2], common_run(a, b, bpopular, p[1], p[2], ahi, bhi) >> :
        p \in { q \in (alo..(ahi - 1)) \X (blo..(bhi - 1)) :
                  /\ a[q[1] + 1] = b[q[2] + 1]
                  /\ b[q[2] + 1] \notin bpopular
                  /\ \/ q[1] = alo
                     \/ q[2] = blo
                     \/ a[q[1]] # b[q[2]]
                     \/ b[q[2]] \in bpopular } }

\* `besti, bestj, bestsize` after that loop: (alo, blo, 0) when there is no
\* run, else the longest run, of those the one that starts earliest in a,
\* and of those the one that starts earliest in b.
longest(found, alo, blo) ==
    IF found = {} THEN << alo, blo, 0 >>
    ELSE CHOOSE m \in found :
            \A n \in found :
                \/ n[3] < m[3]
                \/ n[3] = m[3] /\ m[1] < n[1]
                \/ n[3] = m[3] /\ m[1] = n[1] /\ m[2] <= n[2]

\* A block made k elements longer at its start, and at its end.
longer_before(m, k) == << m[1] - k, m[2] - k, m[3] + k >>
longer_after(m, k) == << m[1], m[2], m[3] + k >>

\* The two loops that end find_longest_match: the block is extended by the
\* equal elements before it, and then by those after it, the popular ones
\* too (nothing is junk).
extended_before(a, b, alo, blo, m) ==
    longer_before(m, common_run_back(a, b, m[1], m[2], alo, blo))
extended_after(a, b, ahi, bhi, m) ==
    longer_after(m, common_run(a, b, {}, m[1] + m[3], m[2] + m[3], ahi, bhi))

\* SequenceMatcher.find_longest_match(alo, ahi, blo, bhi): the longest
\* matching block (i, j, k) of a[alo:ahi] and b[blo:bhi] without a popular
\* element, extended on both sides.
find_longest_match(a, b, bpopular, alo, ahi, blo, bhi) ==
    extended_after(a, b, ahi, bhi,
        extended_before(a, b, alo, blo,
            longest(runs(a, b, bpopular, alo, ahi, blo, bhi), alo, blo)))

\* The loop of SequenceMatcher.get_matching_blocks: the longest match m of
\* a[alo:ahi] and b[blo:bhi], then the same to its left and to its right;
\* in increasing order.
RECURSIVE matching_blocks(_, _, _, _, _, _, _)
blocks_around(a, b, bpopular, alo, ahi, blo, bhi, m) ==
    IF m[3] = 0 THEN << >>
    ELSE (IF alo < m[1] /\ blo < m[2]
          THEN matching_blocks(a, b, bpopular, alo, m[1], blo, m[2]) ELSE << >>)
         \o << m >>
         \o (IF m[1] + m[3] < ahi /\ m[2] + m[3] < bhi
             THEN matching_blocks(a, b, bpopular, m[1] + m[3], ahi, m[2] + m[3], bhi)
             ELSE << >>)
matching_blocks(a, b, bpopular, alo, ahi, blo, bhi) ==
    blocks_around(a, b, bpopular, alo, ahi, blo, bhi,
                  find_longest_match(a, b, bpopular, alo, ahi, blo, bhi))

\* The end of get_matching_blocks: blocks that touch are made one, from the
\* k-th block on, `block` being the one collected so far.
RECURSIVE non_adjacent(_, _, _)
non_adjacent(blocks, k, block) ==
    IF k > Len(blocks) THEN IF block[3] > 0 THEN << block >> ELSE << >>
    ELSE IF block[1] + block[3] = blocks[k][1] /\ block[2] + block[3] = blocks[k][2]
         THEN non_adjacent(blocks, k + 1,
                           << block[1], block[2], block[3] + blocks[k][3] >>)
         ELSE (IF block[3] > 0 THEN << block >> ELSE << >>)
              \o non_adjacent(blocks, k + 1, blocks[k])

\* SequenceMatcher.get_matching_blocks: the blocks, closed by (la, lb, 0).
get_matching_blocks(a, b) ==
    non_adjacent(matching_blocks(a, b, popular(b), 0, Len(a), 0, Len(b)), 1, << 0, 0, 0 >>)
        \o << << Len(a), Len(b), 0 >> >>

\* SequenceMatcher.get_opcodes: before each matching block what lies
\* between it and the previous one (replace, delete or insert), then the
\* block itself (equal).
Opcode(op, a_start, a_end, b_start, b_end) ==
    [op |-> op, a_start |-> a_start, a_end |-> a_end, b_start |-> b_start,
     b_end |-> b_end]

RECURSIVE opcodes_from(_, _, _, _)
opcodes_from(blocks, k, i, j) ==
    IF k > Len(blocks) THEN << >>
    ELSE LET ai   == blocks[k][1]
             bj   == blocks[k][2]
             size == blocks[k][3]
             tag  == IF i < ai /\ j < bj THEN "replace"
                     ELSE IF i < ai THEN "delete"
                     ELSE IF j < bj THEN "insert"
                     ELSE ""
         IN  (IF tag # "" THEN << Opcode(tag, i, ai, j, bj) >> ELSE << >>)
             \o (IF size > 0 THEN << Opcode("equal", ai, ai + size, bj, bj + size) >>
                 ELSE << >>)
             \o opcodes_from(blocks, k + 1, ai + size, bj + size)

get_opcodes(a, b) == opcodes_from(get_matching_blocks(a, b), 1, 0, 0)

\* The whitespace \s matches in a pattern compiled without re.UNICODE: the
\* whitespace of ASCII, of the characters drawn the blank; the no-break
\* space is not matched.
re_space(c) == c = " "

\* re.split('(\s)', s): the words between the whitespace characters and the
\* whitespace characters themselves, in order; a word may be empty. From
\* position i on: the word up to the next whitespace character, that
\* character, and the same from the position after it.
RECURSIVE re_split_from(_, _)
re_split_at(s, i, k) ==
    IF k > Len(s) THEN << SubSeq(s, i, Len(s)) >>
    ELSE << SubSeq(s, i, k - 1), << s[k] >> >> \o re_split_from(s, k + 1)
re_split_from(s, i) ==
    re_split_at(s, i, least({ k \in i..Len(s) : re_space(s[k]) } \cup { Len(s) + 1 }))
re_split(s) == re_split_from(s, 1)

\* The configuration of ui.colors the diff is rendered under: the three
\* roles of the diff have definitions of their own.
DiffColors ==
    [BaseColors EXCEPT !["text_diff_added"] = ListDef(<< "bold", "green" >>),
                       !["text_highlight_minor"] = ListDef(<< "white" >>)]

\* A piece of an output of the diff: a text and the role it was colorized
\* with, "" for a text left as it is.
Piece(role, text) == [role |-> role, text |-> text]

\* add_mapper, remove_mapper and minor_mapper: `w if re.match('(\s)', w)
\* else colorize(role, w)`
mapper(role, w) ==
    IF w # << >> /\ re_space(w[1]) THEN Piece("", w) ELSE Piece(role, w)
map_words(role, words) == [k \in 1..Len(words) |-> mapper(role, words[k])]

\* What a piece is in the output string.
rendered(ui_color, piece) ==
    IF piece.role = "" THEN piece.text
    ELSE colorize(ui_color, DiffColors, NoColors, piece.role, piece.text).value

RECURSIVE join(_, _)
join(ui_color, pieces) ==
    IF pieces = << >> THEN << >>
    ELSE rendered(ui_color, Head(pieces)) \o join(ui_color, Tail(pieces))

\* One pass of the loop of _colordiff: the opcode and the pieces it appends
\* to a_out and to b_out.
Span(op, a_pieces, b_pieces) == [op |-> op, a |-> a_pieces, b |-> b_pieces]

\* Mutant of diff_span: a replace span is always removed and added.
diff_span_no_minor(a, b, o) ==
    LET a_span == Slice(a, o.a_start, o.a_end)
        b_span == Slice(b, o.b_start, o.b_end)
    IN  CASE o.op = "equal" ->
               Span(o.op, << Piece("", a_span) >>, << Piece("", b_span) >>)
          [] o.op = "insert" ->
               Span(o.op, << >>, map_words("text_diff_added", re_split(b_span)))
          [] o.op = "delete" ->
               Span(o.op, map_words("text_diff_removed", re_split(a_span)), << >>)
          [] o.op = "replace" ->
               Span(o.op, map_words("text_diff_removed", re_split(a_span)),
                          map_words("text_diff_added", re_split(b_span)))

diff_span(a, b, o) ==
    LET a_span == Slice(a, o.a_start, o.a_end)
        b_span == Slice(b, o.b_start, o.b_end)
    IN  CASE o.op = "equal" ->
               Span(o.op, << Piece("", a_span) >>, << Piece("", b_span) >>)
          [] o.op = "insert" ->
               Span(o.op, << >>, map_words("text_diff_added", re_split(b_span)))
          [] o.op = "delete" ->
               Span(o.op, map_words("text_diff_removed", re_split(a_span)), << >>)
          [] o.op = "replace" ->
               IF lowerStr(a_span) # lowerStr(b_span)
               THEN Span(o.op, map_words("text_diff_removed", re_split(a_span)),
                               map_words("text_diff_added", re_split(b_span)))
               ELSE Span(o.op, map_words("text_highlight_minor", re_split(a_span)),
                               map_words("text_highlight_minor", re_split(b_span)))

\* u''.join(a_out) and u''.join(b_out), as pieces.
RECURSIVE a_pieces(_)
a_pieces(spans) ==
    IF spans = << >> THEN << >> ELSE Head(spans).a \o a_pieces(Tail(spans))
RECURSIVE b_pieces(_)
b_pieces(spans) ==
    IF spans = << >> THEN << >> ELSE Head(spans).b \o b_pieces(Tail(spans))

\* What colordiff did: it returned the passes of its loop, or it raised.
Diff(spans) == [raised |-> "", spans |-> spans]
DiffRaised(exc) == [raised |-> exc, spans |-> << >>]

\* The two texts returned as they are, and the old text colorized whole as
\* removed with the new text colorized whole as added.
whole(a_role, a, b_role, b) ==
    Diff(<< Span("", << Piece(a_role, a) >>, << Piece(b_role, b) >>) >>)

\* The loop of _colordiff over the opcodes of two texts.
diff_spans(a, b, opcodes) ==
    Diff([k \in 1..Len(opcodes) |-> diff_span(a, b, opcodes[k])])

\* Mutant of _colordiff: values that are not strings are compared as they
\* are, not as their texts.
_colordiff_by_value(a, b) ==
    IF ~is_basestring(a) \/ ~is_basestring(b)
    THEN IF unicode(a).raised # "" THEN DiffRaised(unicode(a).raised)
         ELSE IF unicode(b).raised # "" THEN DiffRaised(unicode(b).raised)
         ELSE IF a = b
         THEN whole("", unicode(a).value, "", unicode(b).value)
         ELSE whole("text_diff_removed", unicode(a).value,
                    "text_diff_added", unicode(b).value)
    ELSE IF is_bytes(a) \/ is_bytes(b)
    THEN diff_spans(displayable_path(a), displayable_path(b),
                    get_opcodes(displayable_path(a), displayable_path(b)))
    ELSE diff_spans(a.s, b.s, get_opcodes(a.s, b.s))

\* _colordiff(a, b): what each pass appends to the two outputs. Values that
\* are not both strings are converted to text and give one pass without an
\* opcode; of two strings one of which is a byte string the displayable
\* forms are diffed.
_colordiff(a, b) ==
    IF ~is_basestring(a) \/ ~is_basestring(b)
    THEN IF unicode(a).raised # "" THEN DiffRaised(unicode(a).raised)
         ELSE IF unicode(b).raised # "" THEN DiffRaised(unicode(b).raised)
         ELSE IF unicode(a).value = unicode(b).value
         THEN whole("", unicode(a).value, "", unicode(b).value)
         ELSE whole("text_diff_removed", unicode(a).value,
                    "text_diff_added", unicode(b).value)
    ELSE IF is_bytes(a) \/ is_bytes(b)
    THEN diff_spans(displayable_path(a), displayable_path(b),
                    get_opcodes(displayable_path(a), displayable_path(b)))
    ELSE diff_spans(a.s, b.s, get_opcodes(a.s, b.s))

\* colordiff(a, b) under config['ui']['color'] = ui_color; with color off
\* `unicode(a), unicode(b)`.
colordiff(ui_color, a, b) ==
    IF ui_color THEN _colordiff(a, b)
    ELSE IF unicode(a).raised # "" THEN DiffRaised(unicode(a).raised)
    ELSE IF unicode(b).raised # "" THEN DiffRaised(unicode(b).raised)
    ELSE whole("", unicode(a).value, "", unicode(b).value)

(***************************************************************************)
(* ui.split_into_lines: word wrapping of a colorized text.                 *)
(***************************************************************************)
\* s.split(): the words between the runs of whitespace, none of them empty.
RECURSIVE split_from(_, _, _)
split_from(s, i, word) ==
    IF i > Len(s) THEN IF word = << >> THEN << >> ELSE << word >>
    ELSE IF isspace(s[i])
         THEN (IF word = << >> THEN << >> ELSE << word >>) \o split_from(s, i + 1, << >>)
         ELSE split_from(s, i + 1, Append(word, s[i]))
split(s) == split_from(s, 1, << >>)

\* ' '.join(words)
RECURSIVE join_words(_)
join_words(words) ==
    IF words = << >> THEN << >>
    ELSE IF Len(words) = 1 THEN words[1]
    ELSE words[1] \o << " " >> \o join_words(Tail(words))

\* Mutant of fits: every line is measured against the first width.
fits_first_only(lines, pot_substr_raw, first_width, middle_width) ==
    Len(pot_substr_raw) <= first_width

\* `fits_first or fits_middle`
fits(lines, pot_substr_raw, first_width, middle_width) ==
    \/ (Len(lines) = 0 /\ Len(pot_substr_raw) <= first_width)
    \/ (Len(lines) # 0 /\ Len(pot_substr_raw) <= middle_width)

\* `for i in range(len(words_raw))`, from the i-th word on (counted from 1).
RECURSIVE split_loop(_, _, _, _, _, _)
split_loop(words_raw, words, i, first_width, middle_width, acc) ==
    IF i > Len(words_raw) THEN acc
    ELSE LET pot_substr_raw == IF i = 1 THEN words_raw[i]
                               ELSE acc.next_substr_raw \o << " " >> \o words_raw[i]
             pot_substr     == IF i = 1 THEN words[i]
                               ELSE acc.next_substr \o << " " >> \o words[i]
         IN  split_loop(words_raw, words, i + 1, first_width, middle_width,
                IF fits(acc.raw, pot_substr_raw, first_width, middle_width)
                THEN [acc EXCEPT !.next_substr_raw = pot_substr_raw,
                                 !.next_substr = pot_substr]
                ELSE [raw             |-> Append(acc.raw, acc.next_substr_raw),
                      col             |-> Append(acc.col, acc.next_substr),
                      next_substr_raw |-> words_raw[i],
                      next_substr     |-> words[i]])

\* split_into_lines(string, raw_string, width_tuple): result['col'] and
\* result['raw'], or the AssertionError of `assert len(words_raw) ==
\* len(words)`.
split_into_lines(string, raw_string, width_tuple) ==
    LET first_width  == width_tuple[1]
        middle_width == width_tuple[2]
        last_width   == width_tuple[3]
        words_raw    == split(raw_string)
        words        == split(string)
        acc          == split_loop(words_raw, words, 1, first_width, middle_width,
                            [raw |-> << >>, col |-> << >>,
                             next_substr_raw |-> << >>, next_substr |-> << >>])
        raw          == Append(acc.raw, acc.next_substr_raw)
        col          == Append(acc.col, acc.next_substr)
    IN  IF Len(words_raw) # Len(words)
        THEN [raised |-> "AssertionError", col |-> << >>, raw |-> << >>]
        ELSE IF ~(Len(acc.next_substr_raw) <= last_width)
        THEN [raised |-> "", col |-> Append(col, << >>), raw |-> Append(raw, << >>)]
        ELSE [raised |-> "", col |-> col, raw |-> raw]

\* Longest text drawn from every sequence over the characters of a title.
MaxTitle == 3

\* c * n
Repeat(c, n) == [k \in 1..n |-> c]

\* The values diffed: as old value every text up to MaxTitle over two
\* letters, a capital and the space, as new value every such text without
\* the capital; some longer texts, texts with a no-break space, and texts of
\* 200 characters, of which 'a' is popular; byte strings, with and without a
\* byte outside ASCII; numbers and None.
OldChars == { "a", "A", "b", " " }
NewChars == { "a", "b", " " }
LongerTexts ==
    { << "A", "b", "c" >>, << "a", "b", "c" >>, << "1" >>, << "N", "o", "n", "e" >>,
      << "a", " ", " ", "b" >>, << "a", "b", " ", "a", "b" >>,
      << "a", NBSP, "b" >>, << NBSP >>, << "a", " ", "b", NBSP >>,
      Repeat("a", 200), << "a", "b" >> \o Repeat("a", 198),
      Repeat("a", 100) \o << "b", " ", "c" >> \o Repeat("a", 100) }
ByteStrings ==
    { Bytes(<< >>), Bytes(<< "a" >>), Bytes(<< "a", " ", "b" >>), Bytes(<< HighByte >>),
      Bytes(<< "a", HighByte >>) }
OtherValues == { Number(1), Number(2), None }
OldValues ==
    { Text(s) : s \in UNION { [1..n -> OldChars] : n \in 0..MaxTitle } \cup LongerTexts }
    \cup ByteStrings \cup OtherValues
NewValues ==
    { Text(s) : s \in UNION { [1..n -> NewChars] : n \in 0..MaxTitle } \cup LongerTexts }
    \cup ByteStrings \cup OtherValues

\* A call colordiff(a, b) and its two outputs.
ColordiffCall(ui_color, a, b) ==
    [fn |-> "colordiff", ui_color |-> ui_color, a |-> a, b |-> b,
     spans |-> << >>, a_out |-> << >>, b_out |-> << >>]

InitDiff ==
    /\ NoSession
    /\ pc = "idle"
    /\ out = << >>
    /\ \E ui_color \in BOOLEAN, a \in OldValues, b \in NewValues :
          call = ColordiffCall(ui_color, a, b)

\* colordiff(a, b)
ColorDiff ==
    /\ call.fn = "colordiff"
    /\ pc = "idle"
    /\ \E r \in { colordiff(call.ui_color, call.a, call.b) } :
          /\ call' = [call EXCEPT !.spans = r.spans,
                                  !.a_out = join(call.ui_color, a_pieces(r.spans)),
                                  !.b_out = join(call.ui_color, b_pieces(r.spans))]
          /\ pc' = IF r.raised # "" THEN r.raised ELSE "diffed"
    /\ out' = << >>
    /\ UNCHANGED << session_vars, prompt, sel, exit_status >>

NextDiff == ColorDiff

SpecDiff == InitDiff /\ [][NextDiff]_vars

\* Most words of a text that is split into lines, and the widest line.
MaxWords == 3
MaxLine == 3

\* The words wrapped, the texts made of them and the widths of the lines;
\* a column narrower than the track number and the length beside the title
\* leaves a negative width.
WrapWords == { << "a" >>, << "a", "b" >>, << "a", "b", "c" >> }
WordLists == UNION { [1..n -> WrapWords] : n \in 0..MaxWords }
WidthTuples == ((-1)..MaxLine) \X ((-1)..MaxLine) \X ((-1)..MaxLine)

\* The text with every word colorized, as colordiff colorizes a changed word.
colored_words(words) ==
    [k \in 1..Len(words) |-> _colorize(<< "bold", "red" >>, words[k]).value]

\* A call split_into_lines(string, raw_string, width_tuple).
SplitIntoLinesCall(string, raw_string, width_tuple) ==
    [fn |-> "split_into_lines", string |-> string, raw_string |-> raw_string,
     width_tuple |-> width_tuple, col |-> << >>, raw |-> << >>]

InitLines ==
    /\ NoSession
    /\ pc = "idle"
    /\ out = << >>
    /\ \E words \in WordLists, colored \in BOOLEAN, width_tuple \in WidthTuples :
          call = SplitIntoLinesCall(
                     join_words(IF colored THEN colored_words(words) ELSE words),
                     join_words(words), width_tuple)

\* split_into_lines(string, raw_string, width_tuple)
SplitIntoLines ==
    /\ call.fn = "split_into_lines"
    /\ pc = "idle"
    /\ LET lines == split_into_lines(call.string, call.raw_string, call.width_tuple)
       IN  /\ pc' = IF lines.raised # "" THEN lines.raised ELSE "returned"
           /\ call' = [call EXCEPT !.col = lines.col, !.raw = lines.raw]
    /\ out' = << >>
    /\ UNCHANGED << session_vars, prompt, sel, exit_status >>

NextLines == SplitIntoLines

SpecLines == InitLines /\ [][NextLines]_vars

(***************************************************************************)
(* commands.show_change: show_match_tracks, the track list of an album     *)
(* match.                                                                  *)
(***************************************************************************)
\* What show_match_tracks prints: a medium header before the k-th pairing
\* (with the number of the medium and its title, with its title, or with
\* its number), the line of the k-th pairing (unchanged; changed on one
\* line; changed and wrapped in columns or at the column border), the
\* headers of the two summaries and their lines.
MediumShown(form, k) == Event("medium", form, "", k)
TrackShown(kind, k) == Event("track", kind, "", k)
SummaryShown(what, n) == Event("summary", what, "", n)
WarningShown(what, i) == Event("warning", what, "", i)

\* One pairing (item, track_info) of match.mapping: the medium of the track
\* and its disc title (a value each, None when the source of the match gave
\* none), the title of the item and the title of the track. The item and
\* the track of a pairing have the same track number and the same length,
\* TrackLength seconds; the file of the item is named FileName.
Pairing(medium, disctitle, item_title, title) ==
    [medium |-> medium, disctitle |-> disctitle, item_title |-> item_title,
     title |-> title]
TrackLength == 60
FileName == << "f" >>

\* human_seconds_short(interval): u'%i:%02i' % (interval // 60, interval % 60)
human_seconds_short(interval) ==
    format_i(interval \div 60) \o << ":" >>
        \o (IF interval % 60 < 10 THEN << "0" >> ELSE << >>) \o format_i(interval % 60)

\* make_track_titles(item, track_info): the pair (cur_title, new_title), the
\* file name and the title as they are for an item without a title, else the
\* two outputs of colordiff on the stripped title of the item.
joined(ui_color, spans) ==
    << join(ui_color, a_pieces(spans)), join(ui_color, b_pieces(spans)) >>
make_track_titles(pair, ui_color) ==
    IF strip(pair.item_title) = << >>
    THEN << FileName, pair.title >>
    ELSE joined(ui_color,
                colordiff(ui_color, Text(strip(pair.item_title)), Text(pair.title)).spans)

\* The pair (cur, new) of a track number or a length that does not change.
both(text) == << text, text >>

\* make_track_numbers(item, track_info) for equal track numbers: the empty
\* template, colorized as text_faint on both sides.
make_track_numbers(ui_color) ==
    both(rendered(ui_color, Piece("text_faint", << >>)))

\* make_track_lengths(item, track_info) for equal lengths: u'({})' of the
\* length, colorized as text_highlight_minor on both sides.
make_track_lengths(ui_color) ==
    both(rendered(ui_color,
                  Piece("text_highlight_minor",
                        << "(" >> \o human_seconds_short(TrackLength) \o << ")" >>)))

\* `ui.uncolorize(' '.join([track, title, length]))`
comparison(track, title, length) ==
    uncolorize(track \o << " " >> \o title \o << " " >> \o length)

\* The dicts lhs and rhs of make_line; the empty dict has no 'width'.
Side(title, track, length, width) ==
    [title |-> title, track |-> track, length |-> length, width |-> width]
EmptySide == Side(<< >>, << >>, << >>, 0)

\* make_line(item, track_info) from the titles, the track numbers and the
\* lengths made: the tuple (info, lhs, rhs), or None when the function ends
\* without a return statement. The rhs of an unchanged track is the empty
\* dict.
compare_sides(titles, tracks, lengths, detail) ==
    LET lhs_comp == comparison(tracks[1], titles[1], lengths[1])
        rhs_comp == comparison(tracks[2], titles[2], lengths[2])
        lhs      == Side(titles[1], tracks[1], lengths[1], Len(lhs_comp))
        rhs      == Side(titles[2], tracks[2], lengths[2], Len(rhs_comp))
    IN  IF lhs_comp # rhs_comp
        THEN [none |-> FALSE, changed |-> TRUE, prefix |-> "changed",
              lhs |-> lhs, rhs_has_width |-> TRUE, rhs |-> rhs]
        ELSE IF detail
        THEN [none |-> FALSE, changed |-> FALSE, prefix |-> "* ",
              lhs |-> lhs, rhs_has_width |-> FALSE, rhs |-> EmptySide]
        ELSE [none |-> TRUE, changed |-> FALSE, prefix |-> "",
              lhs |-> EmptySide, rhs_has_width |-> FALSE, rhs |-> EmptySide]
make_line(pair, ui_color, detail) ==
    compare_sides(make_track_titles(pair, ui_color), make_track_numbers(ui_color),
                  make_track_lengths(ui_color), detail)

\* bool(track_info.disctitle): None and the empty title are false.
has_disctitle(pair) == pair.disctitle # None /\ pair.disctitle.s # << >>

\* make_medium_info_line(): which of its three templates makes the header,
\* '* %s %s: %s' of media, medium and disc title, '* %s: %s' of media and
\* disc title, or '* %s %s' of media and medium.
make_medium_info_line(mediums, pair) ==
    IF mediums > 1 /\ has_disctitle(pair) THEN "medium_disctitle"
    ELSE IF has_disctitle(pair) THEN "disctitle"
    ELSE "medium"

\* An element of `lines`: a medium header ('disk' in info) or a track line.
DiskLine(k, form) ==
    [disk |-> TRUE, form |-> form, index |-> k, changed |-> FALSE, lhs |-> EmptySide,
     rhs |-> EmptySide]
TrackLine(k, line) ==
    [disk |-> FALSE, form |-> "", index |-> k, changed |-> line.changed, lhs |-> line.lhs,
     rhs |-> line.rhs]

\* One pass of `for item, track_info in pairs`, for the k-th pairing and
\* the line make_line returned for it: the medium header, made when
\* `medium != track_info.medium or disctitle != track_info.disctitle`, and
\* the line are appended and the widest sides are kept. Unpacking None into
\* `info, lhs, rhs` is a TypeError; `rhs['width']` on the empty dict is a
\* KeyError.
append_line(acc, k, mediums, pair, line) ==
    LET header == acc.medium # pair.medium \/ acc.disctitle # pair.disctitle
        lines1 == IF header
                  THEN Append(acc.lines, DiskLine(k, make_medium_info_line(mediums, pair)))
                  ELSE acc.lines
        max_l  == IF acc.max_width_l < line.lhs.width THEN line.lhs.width
                  ELSE acc.max_width_l
    IN  IF line.none
        THEN [acc EXCEPT !.raised = "TypeError", !.lines = lines1,
                         !.medium = pair.medium, !.disctitle = pair.disctitle]
        ELSE IF ~line.rhs_has_width
        THEN [acc EXCEPT !.raised = "KeyError",
                         !.lines = Append(lines1, TrackLine(k, line)),
                         !.medium = pair.medium, !.disctitle = pair.disctitle,
                         !.max_width_l = max_l]
        ELSE [raised      |-> "",
              lines       |-> Append(lines1, TrackLine(k, line)),
              medium      |-> pair.medium,
              disctitle   |-> pair.disctitle,
              max_width_l |-> max_l,
              max_width_r |-> IF acc.max_width_r < line.rhs.width
                              THEN line.rhs.width ELSE acc.max_width_r]

\* `for item, track_info in pairs`, from the k-th pairing on, until a pass
\* raises.
RECURSIVE build_lines(_, _, _, _, _, _)
build_lines(pairs, k, acc, mediums, ui_color, detail) ==
    IF k > Len(pairs) \/ acc.raised # "" THEN acc
    ELSE build_lines(pairs, k + 1,
                     append_line(acc, k, mediums, pairs[k],
                                 make_line(pairs[k], ui_color, detail)),
                     mediums, ui_color, detail)

\* calc_available_columns_per_line(col_width, track_num_len,
\* track_duration_len): the columns left to the title on the first, the
\* middle and the last line.
calc_available_columns_per_line(col_width, track_num_len, track_duration_len) ==
    LET num_len      == IF track_num_len > 0 THEN track_num_len + 1 ELSE track_num_len
        duration_len == IF track_duration_len > 0 THEN track_duration_len + 1
                        ELSE track_duration_len
    IN  << col_width - (num_len + duration_len), col_width - num_len, col_width - num_len >>

\* calc_word_wrapping(col_width, xhs)
calc_word_wrapping(col_width, xhs) ==
    split_into_lines(xhs.title, uncolorize(xhs.title),
                     calc_available_columns_per_line(col_width, color_len(xhs.track),
                                                     color_len(xhs.length)))

\* What two statements in a row raise: what the first raises, else what the
\* second does.
first_raised(raised, then_raised) == IF raised # "" THEN raised ELSE then_raised

\* format_track_as_columns(info, col_width_l, col_width_r, lhs, rhs): what
\* it raises; the left title is wrapped first, then the right one, and the
\* line is printed when both are.
format_track_as_columns(col_width_l, col_width_r, lhs, rhs) ==
    first_raised(calc_word_wrapping(col_width_l, lhs).raised,
                 calc_word_wrapping(col_width_r, rhs).raised)

\* What print_line did: it printed, or it raised and printed nothing.
Printed(event) == [raised |-> "", event |-> event]
NotPrinted(exc) == [raised |-> exc, event |-> Event("", "", "", 0)]
PrintedUnless(raised, event) == IF raised # "" THEN NotPrinted(raised) ELSE Printed(event)

\* print_line(info, lhs, rhs) for one element of `lines`.
print_line(line, col_width_l, col_width_r, layout) ==
    IF line.disk THEN Printed(MediumShown(line.form, line.index))
    ELSE IF ~line.changed THEN Printed(TrackShown("unchanged", line.index))
    ELSE IF line.lhs.width > col_width_l \/ line.rhs.width > col_width_r
         THEN IF layout = "column"
              THEN PrintedUnless(format_track_as_columns(col_width_l, col_width_r,
                                                         line.lhs, line.rhs),
                                 TrackShown("columns", line.index))
              ELSE Printed(TrackShown("newline", line.index))
         ELSE Printed(TrackShown("changed", line.index))

\* One pass of `for line in lines: print_line(*line)`: what has been printed
\* after it, and what it raised.
after_print(acc, p) ==
    IF p.raised # "" THEN [acc EXCEPT !.raised = p.raised]
    ELSE [acc EXCEPT !.out = Append(@, p.event)]

\* `for line in lines: print_line(*line)`, from the i-th line on: what was
\* printed when the loop ended or a line raised.
RECURSIVE print_lines(_, _, _, _, _, _)
print_lines(lines, i, col_width_l, col_width_r, layout, acc) ==
    IF i > Len(lines) \/ acc.raised # "" THEN acc
    ELSE print_lines(lines, i + 1, col_width_l, col_width_r, layout,
                     after_print(acc, print_line(lines[i], col_width_l, col_width_r,
                                                 layout)))

\* The missing-tracks or unmatched-tracks summary of n tracks: nothing for
\* none, else a header and one warning line per track.
summary_lines(what, n) ==
    IF n = 0 THEN << >>
    ELSE << SummaryShown(what, n) >> \o [i \in 1..n |-> WarningShown(what, i)]

\* `for line in lines: print_line(*line)` with the column widths
\* calculated, when the lines were built.
print_tracks(c, built, widths) ==
    IF built.raised # "" THEN [raised |-> built.raised, out |-> << >>]
    ELSE print_lines(built.lines, 1, widths[1], widths[2], c.layout,
                     [raised |-> "", out |-> << >>])

\* The second half of show_match_tracks, for the lines built: the column
\* widths are calculated and the lines are printed.
print_built(c, built) ==
    print_tracks(c, built,
                 calc_column_width(naive_col_width(c.terminal_width, c.indent_width),
                                   built.max_width_l, built.max_width_r))

\* The end of show_match_tracks, for the track lines printed: the missing
\* and the unmatched tracks.
print_summaries(c, tracks) ==
    IF tracks.raised # "" THEN tracks
    ELSE [raised |-> "",
          out |-> tracks.out
                  \o summary_lines("missing", c.extra_tracks)
                  \o summary_lines("unmatched", c.extra_items)]

\* `lines = []`, `medium = disctitle = None` and
\* `max_width_l = max_width_r = 0`
NoLines ==
    [raised |-> "", lines |-> << >>, medium |-> None, disctitle |-> None,
     max_width_l |-> 0, max_width_r |-> 0]

\* show_match_tracks(): what it raises and what it has printed.
show_match_tracks(c) ==
    print_summaries(c,
        print_built(c,
            build_lines(c.pairs, 1, NoLines, c.mediums, c.ui_color, c.detail)))

\* Longest track list of a match.
MaxTracks == 2

\* The titles of an item and of the track it is paired with: the same title,
\* another title, the same title followed by a blank, and for an item
\* without a title the name of its file and another title. The medium and
\* the disc title of a track: neither, a medium without a disc title, with
\* an empty one and with one; the number of mediums of the match. The
\* pairings and the track lists drawn (a list is in the order of the track
\* indices), and the numbers of extra tracks and of extra items.
TitlePairs ==
    { << << "a", " ", "b" >>, << "a", " ", "b" >> >>,
      << << "a", " ", "b" >>, << "a", " ", "c" >> >>,
      << << "a", " ", "b" >>, << "a", " ", "b", " " >> >>,
      << << " " >>, << "f" >> >>,
      << << " " >>, << "a" >> >> }
Discs ==
    { << None, None >>, << Number(1), None >>, << Number(2), Text(<< >>) >>,
      << Number(2), Text(<< "x" >>) >> }
MediumCounts == { 1, 2 }
Pairings == { Pairing(d[1], d[2], t[1], t[2]) : d \in Discs, t \in TitlePairs }
TrackLists == UNION { [1..n -> Pairings] : n \in 0..MaxTracks }
ExtraCounts == { 0, 1 }
Layouts == { "column", "newline" }

\* A call of show_match_tracks under config['ui']['color'] = ui_color,
\* config['import']['detail'] = detail and
\* config['ui']['import']['albumdiff']['layout'] = layout.
ShowMatchTracksCall(pairs, mediums, ui_color, detail, layout, terminal_width, extra_tracks, extra_items) ==
    [fn |-> "show_match_tracks", pairs |-> pairs, mediums |-> mediums, ui_color |-> ui_color,
     detail |-> detail, layout |-> layout,
     terminal_width |-> terminal_width, indent_width |-> 0,
     extra_tracks |-> extra_tracks, extra_items |-> extra_items]

InitTracks ==
    /\ NoSession
    /\ pc = "idle"
    /\ out = << >>
    /\ \E pairs \in TrackLists, mediums \in MediumCounts, ui_color \in BOOLEAN,
          detail \in BOOLEAN, layout \in Layouts, t \in TerminalWidths,
          et \in ExtraCounts, ei \in ExtraCounts :
          call = ShowMatchTracksCall(pairs, mediums, ui_color, detail, layout, t, et, ei)

ShowMatchTracks ==
    /\ call.fn = "show_match_tracks"
    /\ pc = "idle"
    /\ \E r \in { show_match_tracks(call) } :
          /\ pc' = IF r.raised # "" THEN r.raised ELSE "shown"
          /\ out' = r.out
    /\ UNCHANGED << session_vars, prompt, sel, exit_status, call >>

NextTracks == ShowMatchTracks

SpecTracks == InitTracks /\ [][NextTracks]_vars


(***************************************************************************)
(* The steps of choose_candidate, from one console read to the next. Each  *)
(* gives the values of its locals, what it printed and where it stops.     *)
(***************************************************************************)
Step(where, d, io, o, m, req) ==
    [pc |-> where, result |-> d, prompt |-> io, out |-> o, match |-> m,
     require |-> req]

\* The end of a choose_candidate step that returned or raised.
Ended(end, o, m, req) == Step(end.pc, end.result, NoPrompt, o, m, req)

\* The title of the item of the task, and the titles of the tracks the
\* candidates drawn pair it with: the same title, another title, and the same
\* title followed by a blank. The track of a TrackMatch has another title.
ItemTitle == << "a", " ", "b" >>
TrackTitles ==
    { << "a", " ", "b" >>,
      << "a", " ", "c" >>,
      << "a", " ", "b", " " >> }
SingletonTitles == { << "a", " ", "c" >> }

\* match.mapping of an AlbumMatch: the item of the task paired with the
\* track of the match, on medium 1 of one, without a disc title.
Mapping(title) == << Pairing(Number(1), None, ItemTitle, title) >>

\* What show_match_tracks raises for the mapping of a candidate, no track
\* and no item left over.
tracks_raise(title, detail, ui) ==
    show_match_tracks(ShowMatchTracksCall(Mapping(title), 1, ui.color, detail, ui.layout,
                                          ui.terminal_width, 0, 0)).raised

\* The terminals the session runs on: no color on 80 columns, and color on
\* 20 columns, both with the column layout.
UiConfigs ==
    { UiConfig(FALSE, 80, "column"),
      UiConfig(TRUE, 20, "column") }

\* tracks_raise for the titles, the settings of import.detail and the
\* terminals drawn, as one table (merged with the empty one, which leaves it
\* as it is).
TracksRaise ==
    [x \in TrackTitles \X BOOLEAN \X UiConfigs |-> tracks_raise(x[1], x[2], x[3])]
        @@ << >>

\* show_change(cur_artist, cur_album, match): what it raises after the
\* header and the details of the change, which is what show_match_tracks
\* raises. For an unchanged pairing make_line returns None when
\* import.detail is off, and `info, lhs, rhs = make_line(...)` is a
\* TypeError; with import.detail on it returns an empty rhs, and
\* `rhs['width']` is a KeyError. For a changed pairing wider than its column
\* the column layout wraps the colorized titles, and split_into_lines may
\* fail its assertion.
show_change(m) == TracksRaise[<< m.title, config.detail, config.ui >>]

\* `if singleton: show_item_change(item, match) else: show_change(...)`;
\* show_item_change raises nothing.
change_raises(sing, m) == IF sing THEN "" ELSE show_change(m)

\* After the change view of `m`: what it raised passes on, else the match
\* is applied at once or confirmation is asked for.
apply_or_confirm(raised, r, sing, m, req, shown) ==
    IF raised # ""
    THEN Step(raised, NoDecision, NoPrompt, shown, m, req)
    ELSE IF auto_apply(r)
    THEN Ended(Returns(Match(m)), shown, m, req)
    ELSE LET default == confirm_default
             req2    == IF default.kind = "none" THEN TRUE ELSE req
         IN  Step("confirm", NoDecision,
                  input_options(confirm_opts(sing), req2, NoRange, default),
                  Append(shown, PromptShown("confirm")), m, req2)

\* Show the change view of `m`, then apply it at once or ask for confirmation.
show_and_confirm(r, sing, m, req, o) ==
    apply_or_confirm(change_raises(sing, m), r, sing, m, req, Append(o, ChangeShown(m)))

\* Display the candidate list and ask for a choice. The display loop
\* `for i, match in enumerate(candidates)` leaves `match` at the last one.
show_candidates(cands, r, sing, o) ==
    Step("list", NoDecision,
         input_options(list_opts(sing), FALSE, NumRange(1, Len(cands)), NoValue),
         o \o << Message("Finding tags"), CandidatesShown(cands), PromptShown("list") >>,
         cands[Len(cands)], loop_require(r))

\* choose_candidate from its entry to its first read or its return.
choose_candidate(cands, r, sing, o) ==
    IF cands = << >>
    THEN Step("nocand", NoDecision,
              input_options(nocand_opts(sing), FALSE, NoRange, NoValue),
              o \o << Message("No matching found"), PromptShown("nocand") >>,
              NoMatch, FALSE)
    ELSE IF bypass_candidates(r)
         THEN show_and_confirm(r, sing, cands[1], loop_require(r), o)
         ELSE show_candidates(cands, r, sing, o)

\* The fallback prompt: the same input_options call reads again.
Reprompt == Step(pc, NoDecision, prompt, << FallbackShown >>, match, require)

\* choose_candidate after the answer `v` (its `sel`) to the no-candidates prompt.
after_nocand(v, sing) ==
    Ended(nocand_choice(v.c, sing), << >>, match, require)

\* choose_candidate after the answer `v` (its `sel`) to the candidate-list prompt.
after_list(v, cands, r, sing) ==
    IF v.kind = "int"
    THEN show_and_confirm(r, sing, cands[v.n], selection_require(v.n, require),
                          << >>)
    ELSE LET end == list_choice(v.c, sing)
         IN  IF end.pc = "loop"
             THEN show_and_confirm(r, sing, match, require, << >>)
             ELSE Ended(end, << >>, match, require)

\* choose_candidate after the answer `v` (its `sel`) to the confirmation prompt.
after_confirm(v, cands, r, sing) ==
    LET end == confirm_choice(v.c, sing, match)
    IN  IF end.pc = "loop"
        THEN show_candidates(cands, r, sing, << >>)
        ELSE Ended(end, << >>, match, require)

(***************************************************************************)
(* TerminalImportSession.choose_match and choose_item: what they do with   *)
(* the choice choose_candidate returned.                                   *)
(***************************************************************************)
\* choose_candidate has returned `choice`: its locals are gone.
Returned(st) == Step("returned", st.result, NoPrompt, st.out, NoMatch, FALSE)

\* manual_search and manual_id start by asking for a line.
ask_search(st) ==
    Step("artist", NoDecision, NoPrompt, Append(st.out, InputShown("Artist:")),
         NoMatch, FALSE)
ask_id(st, sing) ==
    Step("id", NoDecision, NoPrompt,
         Append(st.out, InputShown(IF sing THEN "Enter recording ID:"
                                           ELSE "Enter release ID:")),
         NoMatch, FALSE)

\* The branches of choose_match on `choice`.
choose_match_choice(st, sing) ==
    LET choice == st.result
    IN  IF choice.kind = "action" /\ choice.action \in {"SKIP", "ASIS", "TRACKS", "ALBUMS"}
        THEN Returned(st)
        ELSE IF choice = Action("MANUAL") THEN ask_search(st)
        ELSE IF choice = Action("MANUAL_ID") THEN ask_id(st, sing)
        ELSE IF choice.kind = "match" THEN Returned(st)
        ELSE [st EXCEPT !.pc = "AssertionError"]

\* The branches of choose_item on `choice`.
choose_item_choice(st, sing) ==
    LET choice == st.result
    IN  IF choice.kind = "action" /\ choice.action \in {"SKIP", "ASIS"}
        THEN Returned(st)
        ELSE IF choice = Action("TRACKS") THEN [st EXCEPT !.pc = "AssertionError"]
        ELSE IF choice = Action("MANUAL") THEN ask_search(st)
        ELSE IF choice = Action("MANUAL_ID") THEN ask_id(st, sing)
        ELSE IF choice.kind = "match" THEN Returned(st)
        ELSE [st EXCEPT !.pc = "AssertionError"]

\* The exceptions that leave choose_candidate and its caller.
Exceptions == {"ImportAbort", "UserError", "AssertionError", "TypeError", "KeyError"}

\* An exception unwinds the frames: the locals are gone.
Unwound(exc, o) == Step(exc, NoDecision, NoPrompt, o, NoMatch, FALSE)

\* A step of the session: a step of choose_candidate and, when it returned,
\* the caller's branch on the choice. Neither choose_match nor choose_item
\* has a handler: an exception passes through.
session_step(st, sing) ==
    LET after == IF st.pc = "choice"
                 THEN IF sing THEN choose_item_choice(st, sing) ELSE choose_match_choice(st, sing)
                 ELSE st
    IN  IF after.pc \in Exceptions THEN Unwound(after.pc, after.out) ELSE after

Commit(st) ==
    /\ pc' = st.pc
    /\ result' = st.result
    /\ prompt' = st.prompt
    /\ out' = st.out
    /\ match' = st.match
    /\ require' = st.require

\* The titles of the candidate lists drawn: up to MaxCands titles, every one
\* but the last another title than the item's.
TitleLists(sing) ==
    { l \in UNION { [1..n -> IF sing THEN SingletonTitles ELSE TrackTitles] :
                        n \in 0..MaxCands } :
          \A i \in 1..(Len(l) - 1) : l[i] \in SingletonTitles }

\* What the matcher may hand over as result g: a ranked list and a
\* recommendation, none when the list is empty.
MatcherResults(g, sing) ==
    { [candidates |-> Candidates(g, p[1]), rec |-> Recommendation[p[2]]] :
          p \in { q \in TitleLists(sing) \X (1..Len(Recommendation)) :
                      q[1] = << >> => Recommendation[q[2]] = "none" } }

\* The importer.action a task may hold before duplicates are resolved.
TaskChoices == {"APPLY"}

\* An option that the mode of the session never reads is kept at one value:
\* quiet_fallback is read in quiet mode only, none_rec_action and
\* default_action outside quiet mode only.
Canonical(c) ==
    /\ (~c.quiet => c.quiet_fallback = "skip")
    /\ (c.quiet => c.default_action = "apply" /\ c.none_rec_action = "ask")

(***************************************************************************)
(* The state after construction: a configuration import_files accepts (it  *)
(* refuses quiet together with timid) and a task no choice was made for.   *)
(***************************************************************************)
Init ==
    /\ config \in [quiet : BOOLEAN, timid : BOOLEAN, detail : BOOLEAN,
                   quiet_fallback : {"skip", "asis"},
                   none_rec_action : {"skip", "asis", "ask"},
                   default_action : {"apply", "skip", "asis", "none"},
                   ui : UiConfigs]
    /\ ~(config.quiet /\ config.timid)
    /\ \E ch \in TaskChoices :
          task = [choice |-> ch, should_remove_duplicates |-> FALSE]
    /\ Canonical(config)
    /\ singleton = FALSE
    /\ candidates = << >>
    /\ rec = "none"
    /\ match = NoMatch
    /\ require = FALSE
    /\ pc = "idle"
    /\ prompt = NoPrompt
    /\ out = << >>
    /\ result = NoDecision
    /\ gen = "task"
    /\ query = NoQuery
    /\ search_artist = << >>
    /\ sel = NoValue
    /\ exit_status = Running
    /\ call = NoCall

(***************************************************************************)
(* The operations, each from one console read to the next.                 *)
(***************************************************************************)
\* The summary judgment APPLY, after the change view of `m`: what it raised
\* passes on, else the match is returned.
apply_shown(raised, m, shown) ==
    IF raised # "" THEN Unwound(raised, shown)
    ELSE Step("returned", Match(m), NoPrompt, shown, NoMatch, FALSE)

\* The summary judgment on the task tagged (cands, r) and, when it decides
\* nothing, choose_candidate up to its first read or its return.
judge_or_choose(cands, r, sing) ==
    LET action == summary_judment(r)
        shown  == << Message("path") >>
    IN  IF action = "APPLY"
        THEN apply_shown(change_raises(sing, cands[1]), cands[1],
                         Append(shown, ChangeShown(cands[1])))
        ELSE IF action # ""
        THEN Step("returned", Action(action), NoPrompt,
                  shown \o summary_output(action), NoMatch, FALSE)
        ELSE session_step(choose_candidate(cands, r, sing, shown), sing)

\* choose_match(task), for a task the matcher tagged, up to its first read
\* or its return.
ChooseMatch ==
    /\ pc = "idle"
    /\ singleton' = FALSE
    /\ \E m \in MatcherResults("task", FALSE) :
          /\ candidates' = m.candidates
          /\ rec' = m.rec
          /\ Commit(judge_or_choose(m.candidates, m.rec, FALSE))
    /\ UNCHANGED << config, task, gen, query, search_artist, sel >>
    /\ UNCHANGED others

\* choose_item(task), for an item the matcher tagged, up to its first read
\* or its return.
ChooseItem ==
    /\ pc = "idle"
    /\ singleton' = TRUE
    /\ \E m \in MatcherResults("task", TRUE) :
          /\ candidates' = m.candidates
          /\ rec' = m.rec
          /\ Commit(judge_or_choose(m.candidates, m.rec, TRUE))
    /\ UNCHANGED << config, task, gen, query, search_artist, sel >>
    /\ UNCHANGED others

\* A line read by the input_options call of choose_candidate that is
\* waiting: the fallback prompt, or the rest of choose_candidate and of its
\* caller up to the next read.
Answer(where, resp) ==
    /\ pc = where
    /\ LET v == read_response(prompt, resp)
       IN  /\ sel' = v
           /\ IF v.kind = "none" THEN Commit(Reprompt)
              ELSE Commit(session_step(
                       CASE where = "nocand"  -> after_nocand(v, singleton)
                         [] where = "list"    -> after_list(v, candidates, rec, singleton)
                         [] where = "confirm" -> after_confirm(v, candidates, rec, singleton),
                       singleton))
    /\ query' = NoQuery
    /\ UNCHANGED << config, singleton, task, candidates, rec, gen, search_artist >>
    /\ UNCHANGED others

AnswerNoCandidates == \E resp \in Responses : Answer("nocand", resp)
AnswerCandidates == \E resp \in Responses : Answer("list", resp)
AnswerConfirm == \E resp \in Responses : Answer("confirm", resp)

\* manual_search: the artist line is read, the second line is asked for.
ManualSearchArtist ==
    /\ pc = "artist"
    /\ \E resp \in SearchInputs : search_artist' = resp
    /\ pc' = "name"
    /\ out' = << InputShown(IF singleton THEN "Track:" ELSE "Album:") >>
    /\ UNCHANGED << config, singleton, task, candidates, rec, match, require, prompt,
                    result, gen, query, sel >>
    /\ UNCHANGED others

\* Mutant of Requery: choose_candidate is called again with the list and
\* the recommendation the matcher result replaced.
Requery_stale(q) ==
    /\ query' = q
    /\ gen' = NextGen(gen)
    /\ \E m \in MatcherResults(NextGen(gen), singleton) :
          /\ candidates' = m.candidates
          /\ rec' = m.rec
          /\ Commit(session_step(
                 choose_candidate(candidates, rec, singleton, << >>), singleton))

\* The matcher is queried and choose_candidate is entered with what the
\* caller now holds.
Requery(q) ==
    /\ query' = q
    /\ gen' = NextGen(gen)
    /\ \E m \in MatcherResults(NextGen(gen), singleton) :
          /\ candidates' = m.candidates
          /\ rec' = m.rec
          /\ Commit(session_step(
                 choose_candidate(m.candidates, m.rec, singleton, << >>), singleton))

\* manual_search returns the stripped lines; tag_album / tag_item is called
\* with them and the loop goes round.
ManualSearchName ==
    /\ pc = "name"
    /\ \E resp \in SearchInputs :
          Requery([kind |-> "search", artist |-> strip(search_artist),
                   name |-> strip(resp), id |-> << >>])
    /\ search_artist' = << >>
    /\ sel' = NoValue
    /\ UNCHANGED << config, singleton, task >>
    /\ UNCHANGED others

\* manual_id returns the stripped line; `if search_id:` the matcher is
\* queried with it, and the loop goes round.
ManualId ==
    /\ pc = "id"
    /\ \E resp \in SearchInputs :
          LET search_id == strip(resp)
          IN  IF search_id # << >>
              THEN Requery([kind |-> "id", artist |-> << >>, name |-> << >>,
                            id |-> search_id])
              ELSE /\ Commit(session_step(
                          choose_candidate(candidates, rec, singleton, << >>), singleton))
                   /\ query' = NoQuery
                   /\ UNCHANGED << candidates, rec, gen >>
    /\ sel' = NoValue
    /\ UNCHANGED << config, singleton, task, search_artist >>
    /\ UNCHANGED others

\* Mutant of InputEnded: the end of the input stream is taken for the
\* operator's abort and ImportAbort is raised.
InputEnded_aborts ==
    /\ pc \in {"nocand", "list", "confirm", "artist", "name", "id", "duplicate", "resume"}
    /\ Commit(Unwound("ImportAbort", << >>))
    /\ candidates' = << >>
    /\ rec' = "none"
    /\ gen' = "task"
    /\ query' = NoQuery
    /\ search_artist' = << >>
    /\ sel' = NoValue
    /\ UNCHANGED << config, singleton, task >>
    /\ UNCHANGED others

\* input_: raw_input() raises EOFError and UserError is raised.
InputEnded ==
    /\ pc \in {"nocand", "list", "confirm", "artist", "name", "id", "duplicate", "resume"}
    /\ Commit(Unwound("UserError", << >>))
    /\ candidates' = << >>
    /\ rec' = "none"
    /\ gen' = "task"
    /\ query' = NoQuery
    /\ search_artist' = << >>
    /\ sel' = NoValue
    /\ UNCHANGED << config, singleton, task >>
    /\ UNCHANGED others

\* Most duplicates found in the library for one task.
MaxDuplicates == 2

\* resolve_duplicate(task, found_duplicates), for an album or an item and n
\* duplicates found, up to its read or its return.
ResolveDuplicate ==
    /\ pc = "idle"
    /\ \E is_album \in BOOLEAN, n \in 0..MaxDuplicates :
          LET warned == << LogWarn(IF is_album THEN "This album is already in the library!"
                                               ELSE "This item is already in the library!") >>
          IN  /\ singleton' = ~is_album
              /\ IF config.quiet
                 THEN /\ task' = [task EXCEPT !.choice = "SKIP"]
                      /\ pc' = "resolved"
                      /\ prompt' = NoPrompt
                      /\ out' = Append(warned, LogInfo("Skipping."))
                 ELSE /\ task' = task
                      /\ pc' = "duplicate"
                      /\ prompt' = input_options(duplicate_opts, FALSE, NoRange, NoValue)
                      /\ out' = warned \o [i \in 1..n |-> Message("Old")]
                                 \o << Message("New"), PromptShown("duplicate") >>
    /\ UNCHANGED << config, candidates, rec, match, require, result, gen,
                    query, search_artist, sel >>
    /\ UNCHANGED others

\* The branches of resolve_duplicate on `sel`.
duplicate_choice(c, t) ==
    CASE c = "s" -> [t EXCEPT !.choice = "SKIP"]
      [] c = "k" -> t
      [] c = "r" -> [t EXCEPT !.should_remove_duplicates = TRUE]

AnswerDuplicate ==
    /\ pc = "duplicate"
    /\ \E resp \in Responses :
          LET v == read_response(prompt, resp)
          IN  /\ sel' = v
              /\ IF v.kind = "none"
                 THEN /\ out' = << FallbackShown >>
                      /\ UNCHANGED << pc, prompt, task >>
                 ELSE /\ task' = duplicate_choice(v.c, task)
                      /\ pc' = "resolved"
                      /\ prompt' = NoPrompt
                      /\ out' = << >>
    /\ UNCHANGED << config, singleton, candidates, rec, match, require, result, gen,
                    query, search_artist >>
    /\ UNCHANGED others

\* What should_resume returns: True or False.
Boolean(b) == [kind |-> "bool", action |-> IF b THEN "True" ELSE "False", match |-> NoMatch]

\* should_resume(path): input_yn, an input_options call on y and n without
\* require, up to its read.
ShouldResume ==
    /\ pc = "idle"
    /\ pc' = "resume"
    /\ prompt' = input_options(yn_opts, FALSE, NoRange, NoValue)
    /\ out' = << PromptShown("resume") >>
    /\ UNCHANGED << config, singleton, task, candidates, rec, match, require, result,
                    gen, query, search_artist, sel >>
    /\ UNCHANGED others

\* A line read by input_yn: the fallback prompt, or `return sel == 'y'`.
AnswerResume ==
    /\ pc = "resume"
    /\ \E resp \in YesNoResponses :
          LET v == read_response(prompt, resp)
          IN  /\ sel' = v
              /\ IF v.kind = "none"
                 THEN /\ out' = << FallbackShown >>
                      /\ UNCHANGED << pc, prompt, result >>
                 ELSE /\ result' = Boolean(v = LetterValue("y"))
                      /\ pc' = "resumed"
                      /\ prompt' = NoPrompt
                      /\ out' = << >>
    /\ UNCHANGED << config, singleton, task, candidates, rec, match, require, gen,
                    query, search_artist >>
    /\ UNCHANGED others

\* main: `except UserError as exc: log.error(u'error: {0}', message);
\* sys.exit(1)`.
MainReports ==
    /\ pc = "UserError"
    /\ pc' = "exited"
    /\ out' = << LogError("error: stdin stream ended while input required") >>
    /\ exit_status' = Exited(1)
    /\ UNCHANGED << config, singleton, task, candidates, rec, match, require, prompt,
                    result, gen, query, search_artist, sel, call >>

Next ==
    \/ ChooseMatch
    \/ ChooseItem
    \/ AnswerNoCandidates
    \/ AnswerCandidates
    \/ AnswerConfirm
    \/ ManualSearchArtist
    \/ ManualSearchName
    \/ ManualId
    \/ InputEnded
    \/ ResolveDuplicate
    \/ AnswerDuplicate
    \/ ShouldResume
    \/ AnswerResume
    \/ MainReports

Spec == Init /\ [][Next]_vars

(***************************************************************************)
(* What the properties below read off a step.                              *)
(***************************************************************************)
\* The events of kind ev among those a step wrote.
EventsOf(o, ev) == {i \in 1..Len(o) : o[i].ev = ev}

\* The step asked for console input: an input_options prompt, its fallback
\* prompt, or a manual_search / manual_id line.
AsksInput(o) == EventsOf(o, "prompt") \cup EventsOf(o, "fallback") \cup EventsOf(o, "input") # {}

\* The step displayed a candidate list or a change view.
Displays(o) == EventsOf(o, "candidates") \cup EventsOf(o, "change") # {}

\* The session is blocked in a console read.
Waiting == pc \in {"nocand", "list", "confirm", "artist", "name", "id", "duplicate", "resume"}

\* The step is the call of choose_match or choose_item on the task.
Chooses == pc = "idle" /\ pc' \notin {"duplicate", "resolved", "resume"}

\* A step of choose_match / choose_item that calls choose_candidate: the
\* first call when no summary judgment is made, and the call that follows
\* manual_search or manual_id.
EntersChooseCandidate ==
    /\ \/ Chooses /\ summary_judment(rec') = ""
       \/ pc \in {"name", "id"}
    /\ pc' # "UserError"

\* C1 as stated: outside quiet mode, choose_candidate entered with a non-empty list,
\* recommendation strong and timid off shows the change view of
\* candidates[0] and returns that candidate in the same step: it issues no
\* prompt of any kind and stops at no console read.
C1_Original ==
    [][ (/\ EntersChooseCandidate
         /\ ~config.quiet /\ ~config.timid
         /\ candidates' # << >> /\ rec' = "strong")
        => /\ pc' = "returned"
           /\ result' = Match(candidates'[1])
           /\ \E i \in 1..Len(out') : out'[i] = ChangeShown(candidates'[1])
           /\ ~AsksInput(out')
           /\ EventsOf(out', "candidates") = {}
           /\ prompt' = NoPrompt
           /\ sel' = NoValue ]_vars

\* C2 as stated: in quiet mode choose_match, choose_item and
\* resolve_duplicate never wait for console input and print no prompt;
\* choose_match / choose_item return: candidates[0] when the recommendation
\* is strong and otherwise exactly the quiet_fallback action, with neither a
\* candidate list nor a change view displayed; and resolve_duplicate leaves
\* the task's choice at SKIP.
C2_Original ==
    [][ (config.quiet /\ pc = "idle" /\ pc' # "resume")
        => /\ pc' \in {"returned", "resolved"}
           /\ ~AsksInput(out')
           /\ sel' = NoValue
           /\ prompt' = NoPrompt
           /\ pc' = "returned" =>
                 IF rec' = "strong"
                 THEN result' = Match(candidates'[1]) /\ candidates'[1].gen = "task"
                 ELSE /\ result' = Action(IF config.quiet_fallback = "skip" THEN "SKIP"
                                          ELSE "ASIS")
                      /\ ~Displays(out')
           /\ pc' = "resolved" => task'.choice = "SKIP" ]_vars

\* C3: an apply decision returned by choose_match / choose_item carries one
\* candidate, and it is an element of the candidate list most recently
\* obtained from the matcher, never of a list a re-query replaced.
C3_ApplyFromCurrentList ==
    (pc = "returned" /\ result.kind = "match") =>
        /\ result.match.gen = gen
        /\ result.match.rank \in 1..Len(candidates)
        /\ candidates[result.match.rank] = result.match

\* C3 witness: after a re-query the operator picked the second candidate of
\* the new list and applied it.
C3_Witness ==
    /\ pc = "returned" /\ result.kind = "match"
    /\ gen # "task"
    /\ result.match.rank = 2

\* C4: the answer 'b' at the no-candidates, candidate-list or confirmation
\* prompt raises ImportAbort in that step: nothing is returned, nothing more
\* is printed or asked, the matcher is not queried, and the session does
\* nothing after it.
C4_AbortRaises ==
    [][ /\ (pc \in {"nocand", "list", "confirm"} /\ sel' = LetterValue("b"))
           => /\ pc' = "ImportAbort"
              /\ result' = NoDecision
              /\ out' = << >>
              /\ prompt' = NoPrompt
              /\ query' = NoQuery
        /\ pc # "ImportAbort"
        /\ result'.action # "ABORT" ]_vars

\* C4 witness: abort was answered at a prompt on a re-queried list.
C4_Witness == pc = "ImportAbort" /\ sel = LetterValue("b") /\ gen # "task"

\* C5: outside quiet mode a recommendation of none is decided by
\* none_rec_action: skip returns SKIP and asis returns ASIS with nothing
\* displayed and nothing asked, ask enters choose_candidate; for low, medium
\* and strong choose_candidate is always entered.
C5_NoneRecAction ==
    [][ (Chooses /\ ~config.quiet)
        => IF rec' = "none" /\ config.none_rec_action \in {"skip", "asis"}
           THEN /\ pc' = "returned"
                /\ result' = Action(IF config.none_rec_action = "skip" THEN "SKIP" ELSE "ASIS")
                /\ ~Displays(out')
                /\ ~AsksInput(out')
           ELSE \/ pc' = "nocand" /\ candidates' = << >>
                \/ pc' = "list" /\ rec' = "none" /\ EventsOf(out', "candidates") # {}
                \/ rec' # "none" /\ EventsOf(out', "change") # {} ]_vars

\* C5 witness: outside quiet mode a task with recommendation none was
\* imported as-is by policy.
C5_Witness ==
    /\ ~config.quiet /\ pc = "returned" /\ gen = "task"
    /\ rec = "none" /\ config.none_rec_action = "asis"
    /\ candidates # << >>
    /\ result = Action("ASIS") /\ sel = NoValue

\* The step re-printed the fallback prompt of the confirmation prompt.
ConfirmReprompted == pc = "confirm" /\ pc' = "confirm" /\ sel' = NoValue

\* The step returned the candidate the waiting confirmation prompt was shown
\* for, on the accepted answer Apply.
ConfirmedApply ==
    /\ pc = "confirm"
    /\ sel' = LetterValue("a")
    /\ result' = Match(match)

\* The step entered choose_candidate and applied the top candidate at once.
AutoApplied ==
    /\ pc \in {"idle", "name", "id"}
    /\ sel' = NoValue
    /\ result' = Match(candidates'[1])

\* C6: outside quiet mode an apply decision is returned either on the
\* accepted answer Apply to the confirmation prompt shown for that very
\* candidate, or without a confirmation prompt when the recommendation in
\* force is strong and timid is off; with timid on it is always the former.
\* The confirmation prompt is shown right after the change view of the
\* candidate it is about, and its fallback prompt keeps that candidate.
C6_ApplyNeedsConfirmation ==
    [][ /\ (pc' = "returned" /\ result'.kind = "match" /\ ~config.quiet)
           => /\ ConfirmedApply \/ (AutoApplied /\ rec' = "strong" /\ ~config.timid)
              /\ config.timid => ConfirmedApply
        /\ (pc' = "confirm")
           => IF ConfirmReprompted
              THEN match' = match /\ prompt' = prompt
              ELSE /\ Len(out') >= 2
                   /\ out'[Len(out') - 1] = ChangeShown(match')
                   /\ out'[Len(out')] = PromptShown("confirm")
                   /\ "a" \in prompt'.letters ]_vars

\* C6 witness: timid mode, a strong recommendation, and the top candidate
\* applied on the operator's answer Apply.
C6_Witness ==
    /\ config.timid /\ ~config.quiet
    /\ pc = "returned" /\ rec = "strong"
    /\ result = Match(candidates[1])
    /\ sel = LetterValue("a")

\* The step that follows the line read by manual_search (its second) or by
\* manual_id: choose_candidate is entered again.
AfterManualInput == pc \in {"name", "id"} /\ pc' # "UserError"

\* The first thing a step displayed that is no plain message.
RECURSIVE first_presented(_, _)
first_presented(o, i) ==
    IF i > Len(o) THEN Message("")
    ELSE IF o[i].ev # "message" THEN o[i]
    ELSE first_presented(o, i + 1)

\* The list is the ranked list of the matcher result g.
RankedList(cands, g) ==
    \A i \in 1..Len(cands) : cands[i].gen = g /\ cands[i].rank = i

\* C7 as stated: after manual-search or manual-id the matcher is always
\* re-invoked with the entered terms, the list in use is replaced by its
\* result, and the first thing presented is the candidate-list display of
\* the new list.
C7_Original ==
    [][ AfterManualInput
        => /\ query' # NoQuery
           /\ gen' # gen
           /\ RankedList(candidates', gen')
           /\ first_presented(out', 1) = CandidatesShown(candidates') ]_vars

\* C7 amended: manual-search always re-invokes the matcher with the stripped
\* artist and name and replaces list and recommendation; manual-id does so
\* only for a non-empty stripped identifier and otherwise keeps the list and
\* recommendation in use. choose_candidate is then entered with the list in
\* use: an empty list gives the no-candidates prompt, a recommendation of
\* none the candidate-list display of that list, any other recommendation
\* the change view of its top candidate with no list display; a candidate
\* returned in that step is the top one under a strong recommendation with
\* timid off, a prompt that step stops at is the confirmation prompt for the
\* top candidate.
C7_RequeryThenChooseCandidate ==
    [][ AfterManualInput
        => /\ pc = "name"
              => /\ query'.kind = "search"
                 /\ query'.artist = strip(search_artist)
                 /\ query'.name = strip(query'.name)
                 /\ gen' # gen
           /\ pc = "id"
              => IF query' = NoQuery
                 THEN UNCHANGED << candidates, rec, gen >>
                 ELSE /\ query'.kind = "id"
                      /\ query'.id # << >> /\ query'.id = strip(query'.id)
                      /\ gen' # gen
           /\ gen' # gen => RankedList(candidates', gen')
           /\ IF candidates' = << >>
              THEN /\ pc' = "nocand"
                   /\ first_presented(out', 1) = PromptShown("nocand")
                   /\ ~Displays(out')
              ELSE IF rec' = "none"
              THEN /\ pc' = "list"
                   /\ first_presented(out', 1) = CandidatesShown(candidates')
                   /\ out'[Len(out')] = PromptShown("list")
              ELSE /\ first_presented(out', 1) = ChangeShown(candidates'[1])
                   /\ EventsOf(out', "candidates") = {}
                   /\ pc' = "returned"
                         => /\ rec' = "strong" /\ ~config.timid
                            /\ result' = Match(candidates'[1])
                   /\ Waiting'
                         => /\ ~(rec' = "strong" /\ ~config.timid)
                            /\ pc' = "confirm" /\ match' = candidates'[1]
                            /\ out'[Len(out')] = PromptShown("confirm") ]_vars

\* C7 witness: a manual identifier was looked up, the matcher returned a
\* list with a recommendation above none, and the operator is asked to
\* confirm the top candidate of the new list without having seen the list.
C7_Witness ==
    /\ pc = "confirm" /\ query.kind = "id" /\ gen # "task"
    /\ rec = "medium" /\ Len(candidates) = MaxCands
    /\ out = << ChangeShown(candidates[1]), PromptShown("confirm") >>

\* No option of the prompt io is displayed as its default.
NoneMarked(io) == \A k \in 1..Len(io.marked) : ~io.marked[k]

\* The prompt io rejects an empty line: the fallback prompt is printed and
\* another line is read.
RejectsEmpty(io) == read_response(io, << >>) = NoValue

\* C8 as stated: a number other than 1 accepted at the candidate-list
\* prompt leads to the confirmation prompt for that candidate, and that
\* prompt is required:
\* no default, no option marked, an empty line rejected, under every policy
\* and tier; a rejected line at the confirmation prompt re-prompts. The
\* forcing lasts for that selection: 'More candidates' starts the next pass
\* with `require` recomputed from the recommendation, and number 1 then
\* gives a prompt required only by a none/low tier or the policy 'none'.
C8_Original ==
    [][ /\ (pc = "list" /\ sel'.kind = "int" /\ sel'.n # 1)
           => /\ pc' = "confirm"
              /\ match' = candidates[sel'.n]
              /\ prompt'.require /\ require'
              /\ prompt'.default = NoValue
              /\ NoneMarked(prompt')
              /\ RejectsEmpty(prompt')
        /\ (pc = "confirm" /\ sel' = NoValue /\ pc' # "UserError")
           => pc' = "confirm" /\ prompt' = prompt /\ out' = << FallbackShown >>
        /\ (pc = "confirm" /\ sel' = LetterValue("m"))
           => pc' = "list" /\ require' = RecLE(rec, "low")
        /\ (pc = "list" /\ sel' = IntValue(1))
           => /\ pc' = "confirm"
              /\ prompt'.require = (require \/ config.default_action = "none")
              /\ require = RecLE(rec, "low") ]_vars

\* What an empty line at the waiting confirmation prompt leads to.
EmptyAtConfirm ==
    LET v == read_response(prompt, << >>)
    IN  IF v.kind = "none" THEN Reprompt
        ELSE session_step(after_confirm(v, candidates, rec, singleton), singleton)

\* C9 as stated: at the confirmation prompt confirmation is required only
\* when the policy is 'none' or a candidate other than rank 1 was selected.
C9_Original ==
    (pc = "confirm" /\ prompt.require)
        => (config.default_action = "none" \/ match.rank # 1)

\* C9 amended: at the confirmation prompt confirmation is required exactly
\* when the policy is 'none', a candidate other than rank 1 was selected, or
\* the recommendation is none or low; then nothing is marked and an empty
\* line is rejected. Otherwise the option of the policy is the marked
\* default and an empty line returns it: 'apply' the displayed candidate,
\* 'skip' SKIP, 'asis' ASIS.
C9_ConfirmDefault ==
    pc = "confirm" =>
        /\ prompt.require <=> \/ config.default_action = "none"
                              \/ match.rank # 1
                              \/ rec \in {"none", "low"}
        /\ IF prompt.require
           THEN /\ RejectsEmpty(prompt) /\ NoneMarked(prompt)
                /\ EmptyAtConfirm.pc = "confirm"
                /\ EmptyAtConfirm.out = << FallbackShown >>
           ELSE /\ EmptyAtConfirm.pc = "returned"
                /\ CASE config.default_action = "apply" ->
                           /\ EmptyAtConfirm.result = Match(match)
                           /\ prompt.marked[1]
                     [] config.default_action = "skip" ->
                           /\ EmptyAtConfirm.result = Action("SKIP")
                           /\ prompt.marked[3]
                     [] config.default_action = "asis" ->
                           /\ EmptyAtConfirm.result = Action("ASIS")
                           /\ prompt.marked[4]
                /\ Cardinality({k \in 1..Len(prompt.marked) : prompt.marked[k]}) = 1

\* C9 witness: a low recommendation under the policy 'apply': the top
\* candidate is put to confirmation and a line was rejected.
C9_Witness ==
    /\ pc = "confirm" /\ rec = "low" /\ config.default_action = "apply"
    /\ match = candidates[1] /\ prompt.require
    /\ out = << FallbackShown >>

\* The option labels of the no-candidates prompt, as sets.
SingletonLabels ==
    { << "U", "s", "e", " ", "a", "s", "-", "i", "s" >>,
      << "S", "k", "i", "p" >>,
      << "E", "n", "t", "e", "r", " ", "s", "e", "a", "r", "c", "h" >>,
      << "e", "n", "t", "e", "r", " ", "I", "d" >>,
      << "a", "B", "o", "r", "t" >> }
AlbumOnlyLabels ==
    { << "a", "s", " ", "T", "r", "a", "c", "k", "s" >>,
      << "G", "r", "o", "u", "p", " ", "a", "l", "b", "u", "m", "s" >> }

\* C10: choose_candidate entered with an empty list prints one prompt, with
\* exactly the singleton options or these plus the two album options, and no
\* candidate list or change view; a line it rejects re-reads for the same
\* prompt; the accepted letter gives the decision with nothing more
\* displayed: u as-is, s skip, e manual search, i manual id, t tracks,
\* g albums, b ImportAbort.
C10_NoCandidatesPrompt ==
    [][ /\ (EntersChooseCandidate /\ candidates' = << >>)
           => /\ pc' = "nocand"
              /\ Cardinality(EventsOf(out', "prompt")) = 1
              /\ out'[Len(out')] = PromptShown("nocand")
              /\ ~Displays(out')
              /\ Len(prompt'.options) = Cardinality({prompt'.options[k] : k \in 1..Len(prompt'.options)})
              /\ {prompt'.options[k] : k \in 1..Len(prompt'.options)}
                    = IF singleton' THEN SingletonLabels
                      ELSE SingletonLabels \cup AlbumOnlyLabels
              /\ prompt'.letters = IF singleton' THEN {"u", "s", "e", "i", "b"}
                                   ELSE {"u", "s", "e", "i", "b", "t", "g"}
        /\ (pc = "nocand" /\ sel' = NoValue /\ pc' # "UserError")
           => pc' = "nocand" /\ prompt' = prompt /\ out' = << FallbackShown >>
        /\ (pc = "nocand" /\ sel'.kind = "letter")
           => /\ ~Displays(out')
              /\ EventsOf(out', "prompt") \cup EventsOf(out', "fallback") = {}
              /\ query' = NoQuery
              /\ CASE sel'.c = "u" -> pc' = "returned" /\ result' = Action("ASIS")
                    [] sel'.c = "s" -> pc' = "returned" /\ result' = Action("SKIP")
                    [] sel'.c = "e" -> pc' = "artist" /\ result' = NoDecision
                    [] sel'.c = "i" -> pc' = "id" /\ result' = NoDecision
                    [] sel'.c = "t" -> /\ ~singleton
                                       /\ pc' = "returned" /\ result' = Action("TRACKS")
                    [] sel'.c = "g" -> /\ ~singleton
                                       /\ pc' = "returned" /\ result' = Action("ALBUMS")
                    [] sel'.c = "b" -> pc' = "ImportAbort" /\ result' = NoDecision
                    [] OTHER -> FALSE ]_vars

\* C10 witness: a manual search found nothing and the operator chose to
\* group the items into albums.
C10_Witness ==
    /\ pc = "returned" /\ result = Action("ALBUMS") /\ sel = LetterValue("g")
    /\ candidates = << >> /\ gen # "task" /\ ~singleton

(***************************************************************************)
(* Properties of input_options, under SpecPrompt.                          *)
(***************************************************************************)
\* The input_options call under study is reading.
Reading == call.fn = "input_options" /\ pc = "read"

\* The positions of the capitalized letters of a label.
Capitals(option) ==
    {i \in 1..Len(option) : isalpha(option[i]) /\ upper(option[i]) = option[i]}

\* The least element of a non-empty set of positions.
Least(S) == CHOOSE x \in S : \A y \in S : x <= y

\* The lower-case shortcuts the prompt gave the options before the k-th.
EarlierShortcuts(io, k) == {lower(io.display_letters[j]) : j \in 1..(k - 1)}

\* The positions of the letters of a label that are no shortcut in `used`.
FreeLetters(option, used) ==
    {i \in 1..Len(option) : isalpha(option[i]) /\ lower(option[i]) \notin used}

\* C11 as stated: input_options never reads with two options sharing a
\* shortcut: when it prompts there is one shortcut per option, all pairwise
\* distinct, and as many recognized letters as options.
C11_Original ==
    Reading =>
        /\ Len(prompt.display_letters) = Len(call.options)
        /\ \A i, j \in 1..Len(prompt.display_letters) :
              i # j => prompt.display_letters[i] # prompt.display_letters[j]
        /\ Cardinality(prompt.letters) = Len(call.options)

\* C13: whatever lines were read before, the read loop returns exactly when
\* it accepts a line, and what it returns is the lower-case shortcut of one
\* of the options or, only with a numeric range, an integer inside it.
C13_ReturnsShortcutOrInRange ==
    [][ (Reading /\ pc' # "UserError")
        => /\ pc' = "returned" <=> sel' # NoValue
           /\ pc' = "read" <=> sel' = NoValue
           /\ sel'.kind = "letter"
              => /\ lower(sel'.c) = sel'.c
                 /\ \E k \in 1..Len(call.options) :
                       /\ sel'.c = lower(prompt.display_letters[k])
                       /\ \E i \in 1..Len(call.options[k]) :
                             lower(call.options[k][i]) = sel'.c
           /\ sel'.kind = "int"
              => /\ call.numrange.on
                 /\ call.numrange.low <= sel'.n /\ sel'.n <= call.numrange.high ]_vars

\* C13 witness: the line " + 2", a sign and a blank before the digit, was
\* returned on as the number 2 for the range (1, 2).
C13_Witness ==
    /\ call.fn = "input_options" /\ pc = "returned"
    /\ call.numrange = NumRange(1, 2)
    /\ call.resp = << " ", "+", " ", "2" >> /\ sel = IntValue(2)

\* C16 as stated: a label with exactly one capitalized letter has it as its
\* shortcut; any other label has its first letter that is not yet the
\* shortcut of an earlier option.
C16_Original ==
    Reading =>
        \A k \in 1..Len(call.options) :
            LET option == call.options[k]
                free   == FreeLetters(option, EarlierShortcuts(prompt, k))
            IN  IF Cardinality(Capitals(option)) = 1
                THEN prompt.display_letters[k] = option[Least(Capitals(option))]
                ELSE /\ free # {}
                     /\ prompt.display_letters[k] = upper(option[Least(free)])

\* C16 amended: a label with a capitalized letter has its first capitalized
\* letter as its shortcut, whether or not an earlier option has that letter;
\* a label without one has its first letter that is not yet the shortcut of
\* an earlier option, and only such a label can make the call fail. The
\* options (Use as-is, Skip, Enter search, enter Id, aBort) get u, s, e, i, b
\* with u marked as the default.
C16_ShortcutRule ==
    /\ Reading =>
        /\ Len(prompt.display_letters) = Len(call.options)
        /\ \A k \in 1..Len(call.options) :
              LET option == call.options[k]
                  free   == FreeLetters(option, EarlierShortcuts(prompt, k))
              IN  IF Capitals(option) # {}
                  THEN prompt.display_letters[k] = option[Least(Capitals(option))]
                  ELSE /\ free # {}
                       /\ prompt.display_letters[k] = upper(option[Least(free)])
        /\ prompt.letters = EarlierShortcuts(prompt, Len(call.options) + 1)
        /\ (/\ call.options = nocand_opts_singleton
            /\ ~call.require /\ ~call.numrange.on /\ call.default = NoValue)
           => /\ prompt.display_letters = << "U", "S", "E", "I", "B" >>
              /\ prompt.marked = << TRUE, FALSE, FALSE, FALSE, FALSE >>
              /\ prompt.default = LetterValue("u")
    /\ (call.fn = "input_options" /\ pc = "ValueError")
       => \E k \in 1..Len(call.options) :
             /\ Capitals(call.options[k]) = {}
             /\ \A i \in 1..Len(call.options[k]) :
                   isalpha(call.options[k][i])
                   => \E j \in 1..(k - 1) :
                         \E h \in 1..Len(call.options[j]) :
                            lower(call.options[j][h]) = call.options[k][i]

\* C16 witness: the label with two capitals follows an option that already
\* has its first capital as shortcut, and gets that letter again.
C16_Witness ==
    /\ Reading
    /\ call.options = << << "a", "B" >>, << "B", "A" >> >>
    /\ prompt.display_letters = << "B", "B" >>

\* A step of the read loop of the call under study: a line was read and
\* either returned on or answered with the fallback prompt.
ReadStep == Reading /\ pc' \in {"read", "returned"}

\* The line is empty but for whitespace while a default is in force.
EmptyWithDefault(io, line) == strip(line) = << >> /\ io.default # NoValue

\* The line is an integer literal inside the numeric range in force.
NumberInRange(io, line) ==
    /\ io.numrange.on
    /\ int(strip(line)).ok
    /\ io.numrange.low <= int(strip(line)).n
    /\ int(strip(line)).n <= io.numrange.high

\* The line is rejected: nothing is returned, no error is raised, the
\* fallback prompt is printed and the same prompt reads again.
Reprompted ==
    /\ pc' = "read"
    /\ sel' = NoValue
    /\ prompt' = prompt
    /\ out' = << FallbackShown >>
    /\ exit_status' = Running

\* C12 as stated: a line is accepted only if it is empty with a default
\* present, a single letter equal (whatever its case) to a shortcut, or an
\* integer literal inside the active numeric range; every other line is
\* answered with the fallback prompt and another read.
C12_Original ==
    [][ ReadStep =>
          LET line == strip(call'.resp)
              form == \/ EmptyWithDefault(prompt, call'.resp)
                      \/ Len(line) = 1 /\ lower(line[1]) \in prompt.letters
                      \/ NumberInRange(prompt, call'.resp)
          IN  /\ pc' = "returned" => form
              /\ ~form => Reprompted ]_vars

\* C12 amended: a line is accepted only if, surrounding whitespace removed,
\* it is empty with a default in force, or its first character is (whatever
\* its case) a shortcut, whatever follows it, or it is an integer literal
\* inside the active numeric range; every other line is never returned on,
\* raises no error and is answered with the fallback prompt and another read
\* of the same prompt, any number of times.
C12_AcceptsByFirstCharacter ==
    [][ ReadStep =>
          LET line == strip(call'.resp)
              form == \/ EmptyWithDefault(prompt, call'.resp)
                      \/ Len(line) >= 1 /\ lower(line[1]) \in prompt.letters
                      \/ NumberInRange(prompt, call'.resp)
          IN  /\ pc' = "returned" => form
              /\ ~form => Reprompted
              /\ pc' = "read" => Reprompted ]_vars

\* C12 witness: the two-character line "ab" was returned on as the shortcut a.
C12_Witness ==
    /\ call.fn = "input_options" /\ pc = "returned"
    /\ call.resp = << "a", "b" >>
    /\ sel = LetterValue("a")

\* The named default is, whatever its case, the shortcut of an option, and
\* no two options share a shortcut.
DefaultNamesOneOption(io, default) ==
    /\ \A i, j \in 1..Len(io.display_letters) :
          i # j => io.display_letters[i] # io.display_letters[j]
    /\ default # NoValue
       => \E k \in 1..Len(io.display_letters) :
             lower(io.display_letters[k]) = lower(default.c)

\* C14 as stated, for the calls whose options have distinct shortcuts and
\* whose named default is one of them: without require and without a numeric
\* range exactly one option is marked default, the first one or the named
\* one, and an empty line returns its shortcut; with require no option is
\* marked and an empty line is answered with the fallback prompt.
C14_Original ==
    [][ (Reading /\ DefaultNamesOneOption(prompt, call.default))
        => IF call.require
           THEN /\ \A k \in 1..Len(prompt.marked) : ~prompt.marked[k]
                /\ (ReadStep /\ strip(call'.resp) = << >>) => Reprompted
           ELSE ~call.numrange.on
                => \E k \in 1..Len(prompt.marked) :
                      /\ \A j \in 1..Len(prompt.marked) : prompt.marked[j] <=> j = k
                      /\ call.default = NoValue => k = 1
                      /\ call.default # NoValue
                         => lower(prompt.display_letters[k]) = lower(call.default.c)
                      /\ (ReadStep /\ strip(call'.resp) = << >>)
                         => /\ pc' = "returned"
                            /\ sel' = LetterValue(lower(prompt.display_letters[k])) ]_vars

(***************************************************************************)
(* The end of the input stream, under Spec.                                *)
(***************************************************************************)
\* C15: when the input stream ends at a waiting prompt UserError is raised
\* and unwinds input_options, choose_candidate and choose_match/choose_item:
\* nothing is returned or decided, no line is read or asked for, the matcher
\* is not queried; the only step after it is main's report and exit with
\* status 1, after which nothing happens; main exits on nothing else, and
\* ImportAbort arises only from the operator's answer b and ends the session
\* without main's report.
C15_InputEndIsUserError ==
    [][ /\ (Waiting /\ pc' = "UserError")
           => /\ result' = NoDecision
              /\ task' = task
              /\ sel' = NoValue
              /\ prompt' = NoPrompt
              /\ out' = << >>
              /\ query' = NoQuery
              /\ exit_status' = Running
        /\ pc' = "UserError" => Waiting
        /\ pc = "UserError"
           => /\ pc' = "exited"
              /\ exit_status' = Exited(1)
              /\ out' = << LogError("error: stdin stream ended while input required") >>
              /\ ~AsksInput(out')
              /\ result' = NoDecision
              /\ task' = task
              /\ query' = NoQuery
        /\ exit_status'.exited => pc = "UserError"
        /\ pc' = "ImportAbort" => sel' = LetterValue("b")
        /\ pc \notin {"exited", "ImportAbort"} ]_vars

\* C15 witness: the input stream ended at a waiting read and main exited
\* with status 1, no decision made.
C15_Witness ==
    /\ pc = "exited" /\ exit_status = Exited(1)
    /\ result = NoDecision

(***************************************************************************)
(* Properties of colorize, uncolorize and color_len, under SpecColor.      *)
(***************************************************************************)
\* colorize returned and its result was stripped / stripped and measured.
Stripped == call.fn = "colorize" /\ pc \in {"uncolorized", "measured"}
Measured == call.fn = "colorize" /\ pc = "measured"

\* The text holds an escape sequence: ESC, an opening bracket, any digits
\* and semicolons, a letter.
HasAnsiCode(s) ==
    \E i, j \in 1..Len(s) :
        /\ i + 1 < j
        /\ s[i] = ESC /\ s[i + 1] = "["
        /\ \A k \in (i + 2)..(j - 1) : s[k] = ";" \/ isdigit(s[k])
        /\ isalpha(s[j])

\* s without the positions in `drop`, in order.
RECURSIVE Without(_, _, _)
Without(s, drop, i) ==
    IF i > Len(s) THEN << >>
    ELSE IF i \in drop THEN Without(s, drop, i + 1)
    ELSE << s[i] >> \o Without(s, drop, i + 1)

\* C17 as stated: with color enabled stripping the colorized text gives the
\* text back and its visible length is the length of the text, for every
\* role and every text; with color disabled colorize returns the text.
C17_Original ==
    /\ (Stripped /\ call.ui_color) => call.stripped = call.text
    /\ (Measured /\ call.ui_color) => call.length = Len(call.text)
    /\ (call.fn = "colorize" /\ pc # "idle" /\ ~call.ui_color)
       => call.raised = "" /\ call.value = call.text

\* C17 amended: whenever colorize returns with color enabled, stripping its
\* result gives the stripped text: the text itself exactly when the text
\* holds no escape sequence, and the text without its escape sequences
\* otherwise; the visible length is the length of the stripped text. With
\* color disabled colorize returns the text, for every name, and stripping
\* that is the identity only on a text without escape sequences.
C17_RoundTripStripsText ==
    /\ Stripped
       => /\ call.stripped = uncolorize(call.text)
          /\ call.stripped = call.text <=> ~HasAnsiCode(call.text)
          /\ \E drop \in SUBSET (1..Len(call.text)) :
                call.stripped = Without(call.text, drop, 1)
          /\ call.ui_color
             => /\ Len(call.value) > Len(call.text)
                /\ SubSeq(call.value, Len(call.value) - Len(RESET_COLOR) + 1,
                          Len(call.value)) = RESET_COLOR
    /\ Measured
       => /\ call.length = Len(call.stripped)
          /\ call.length = Len(call.text) <=> ~HasAnsiCode(call.text)
    /\ (call.fn = "colorize" /\ pc # "idle" /\ ~call.ui_color)
       => call.raised = "" /\ call.value = call.text

\* C17 witness: with color enabled a text that is itself an escape sequence
\* followed by a letter was colorized, stripped and measured: one character
\* is left.
C17_Witness ==
    /\ Measured /\ call.ui_color
    /\ call.color_name = "text_error"
    /\ call.text = << ESC, "[", "3", "1", ";", "1", "m", "a", ESC, "[", "3", "9", "m" >>
    /\ call.stripped = << "a" >>
    /\ call.length = 1

\* The definition of a role is one colorize can use: a non-empty list of
\* ANSI codes, or a legacy color name.
WellDefined(color_def) ==
    IF color_def.kind = "legacy" THEN color_def.name \in DOMAIN LEGACY_COLORS
    ELSE /\ color_def.codes # << >>
         /\ \A i \in 1..Len(color_def.codes) : color_def.codes[i] \in DOMAIN ANSI_CODES

\* C18 as stated: called with a name that is no role, or with a role whose
\* configured definition is malformed, colorize raises nothing and returns
\* the text as it is.
C18_Original ==
    (/\ call.fn = "colorize" /\ pc # "idle"
     /\ \/ call.color_name \notin DOMAIN call.colors
        \/ ~WellDefined(call.colors[call.color_name]))
    => /\ call.raised = ""
       /\ call.value = call.text

(***************************************************************************)
(* Properties of calc_column_width, under SpecColumns.                     *)
(***************************************************************************)
\* calc_column_width returned.
ColumnsReturned == call.fn = "calc_column_width" /\ pc = "returned"

\* The rule of column negotiation: both widths as they are when each fits
\* the half budget, or when one does not but together they fit twice the
\* half budget; the half budget for both otherwise.
ColumnRule(w, l, r, res) ==
    IF l <= w /\ r <= w THEN res = << l, r >>
    ELSE IF l + r <= 2 * w THEN res = << l, r >>
    ELSE res = << w, w >>

\* The budget is 74 columns, the half budget 37.
Budget74 == call.terminal_width - call.indent_width - joiner_width = 74 /\ call.col_width = 37

\* C19 as stated: the rule, and for the budget of 74 columns (30, 30) gives
\* 30/30, (60, 20) gives 60/20 and (60, 60) gives 37/37.
C19_Original ==
    ColumnsReturned
    => /\ ColumnRule(call.col_width, call.max_width_l, call.max_width_r, call.result)
       /\ (Budget74 /\ call.max_width_l = 30 /\ call.max_width_r = 30)
          => call.result = << 30, 30 >>
       /\ (Budget74 /\ call.max_width_l = 60 /\ call.max_width_r = 20)
          => call.result = << 60, 20 >>
       /\ (Budget74 /\ call.max_width_l = 60 /\ call.max_width_r = 60)
          => call.result = << 37, 37 >>

\* C19 amended: the rule, which gives both widths as they are exactly when
\* together they fit twice the half budget and the half budget for both
\* otherwise, so that the two columns never take more than twice the half
\* budget; for the budget of 74 columns (30, 30) gives 30/30, (38, 36) gives
\* 38/36, and (60, 20), 80 columns together, gives 37/37 as (60, 60) does.
C19_ColumnNegotiation ==
    ColumnsReturned
    => /\ ColumnRule(call.col_width, call.max_width_l, call.max_width_r, call.result)
       /\ call.result = IF call.max_width_l + call.max_width_r <= 2 * call.col_width
                        THEN << call.max_width_l, call.max_width_r >>
                        ELSE << call.col_width, call.col_width >>
       /\ call.result[1] + call.result[2] <= 2 * call.col_width
       /\ (Budget74 /\ call.max_width_l = 30 /\ call.max_width_r = 30)
          => call.result = << 30, 30 >>
       /\ (Budget74 /\ call.max_width_l = 38 /\ call.max_width_r = 36)
          => call.result = << 38, 36 >>
       /\ (Budget74 /\ call.max_width_l = 60 /\ call.max_width_r = 20)
          => call.result = << 37, 37 >>
       /\ (Budget74 /\ call.max_width_l = 60 /\ call.max_width_r = 60)
          => call.result = << 37, 37 >>

\* C19 witness: for the budget of 74 columns the widths 60 and 20 were
\* negotiated to 37 and 37.
C19_Witness ==
    /\ ColumnsReturned /\ Budget74
    /\ call.max_width_l = 60 /\ call.max_width_r = 20
    /\ call.result = << 37, 37 >>

(***************************************************************************)
(* Properties of show_match_tracks, under SpecTracks.                      *)
(***************************************************************************)
\* The lines printed for the k-th pairing.
TrackEvents(o, k) == {i \in EventsOf(o, "track") : o[i].rank = k}

\* The title of the item as it is displayed (the name of its file when it
\* has none) is the title of the track: with the track number and the length
\* the same, the old and the new rendered strings are identical.
SameTrack(pair) ==
    pair.title = IF strip(pair.item_title) = << >> THEN FileName ELSE strip(pair.item_title)

\* C20 as stated: for any mix of changed and unchanged pairings the track
\* list is rendered without error: every unchanged pairing as exactly one
\* unchanged-track line, every changed one as one changed-track line, in the
\* order of the pairings, and then the missing and unmatched summaries.
C20_Original ==
    (call.fn = "show_match_tracks" /\ pc # "idle")
    => /\ pc = "shown"
       /\ \A k \in 1..Len(call.pairs) :
             /\ Cardinality(TrackEvents(out, k)) = 1
             /\ \A i \in TrackEvents(out, k) :
                   out[i].what = "unchanged" <=> SameTrack(call.pairs[k])
       /\ \A i, j \in EventsOf(out, "track") : i < j => out[i].rank < out[j].rank
       /\ Cardinality(EventsOf(out, "warning")) = call.extra_tracks + call.extra_items


\* The titles show_match_tracks wraps in columns: those of the changed lines
\* that are wider than their column, when all lines were built and the
\* layout is the column one.
WrappedTitles(c) ==
    LET built  == build_lines(c.pairs, 1, NoLines, c.mediums, c.ui_color, c.detail)
        widths == calc_column_width(naive_col_width(c.terminal_width, c.indent_width),
                                    built.max_width_l, built.max_width_r)
    IN  IF built.raised # "" \/ c.layout # "column" THEN {}
        ELSE UNION { { built.lines[i].lhs.title, built.lines[i].rhs.title } :
                        i \in { n \in 1..Len(built.lines) :
                                  /\ built.lines[n].changed
                                  /\ \/ built.lines[n].lhs.width > widths[1]
                                     \/ built.lines[n].rhs.width > widths[2] } }

\* The words of the colorized title and of its escape-stripped form.
SameWordCount(title) == Len(split(title)) = Len(split(uncolorize(title)))

\* C26 as stated: whenever show_match_tracks wraps a track title in column
\* layout, the colorized title and its escape-stripped form split into the
\* same number of words, so the assertion of split_into_lines never fails.
C26_Original ==
    (call.fn = "show_match_tracks" /\ pc # "idle")
        => /\ \A title \in WrappedTitles(call) : SameWordCount(title)
           /\ pc # "AssertionError"


(***************************************************************************)
(* colordiff                                                               *)
(***************************************************************************)
\* colordiff(call.a, call.b) has ended: it returned or it raised.
Diffed == call.fn = "colordiff" /\ pc # "idle"

\* Both values are strings: the word-level diff.
StringDiff == Diffed /\ is_basestring(call.a) /\ is_basestring(call.b)

\* No escape sequence in a text.
Plain(text) == \A k \in 1..Len(text) : text[k] # ESC

\* C21 as stated: for every string s, colordiff(s, s) returns two outputs
\* that are both s itself; no escape sequence is inserted on either side.
C21_Original ==
    (StringDiff /\ call.a = call.b)
        => /\ pc = "diffed"
           /\ call.a_out = call.a.s
           /\ call.b_out = call.a.s
           /\ Plain(call.a_out) /\ Plain(call.b_out)

\* The text of some pieces, one after the other.
RECURSIVE TextOf(_)
TextOf(pieces) ==
    IF pieces = << >> THEN << >> ELSE Head(pieces).text \o TextOf(Tail(pieces))

\* Every piece that is not a whitespace token of re.split is colorized as
\* the role, and the whitespace tokens are not colorized.
ColoredAs(pieces, role) ==
    \A k \in 1..Len(pieces) :
        pieces[k].role =
            IF pieces[k].text # << >> /\ re_space(pieces[k].text[1]) THEN "" ELSE role

RolesOf(pieces) == { pieces[k].role : k \in 1..Len(pieces) }

\* The two texts the word-level diff aligns: the displayable forms when one
\* of the strings is a byte string.
DiffedText(v) == IF is_bytes(call.a) \/ is_bytes(call.b) THEN displayable_path(v) ELSE v.s

\* C22: each aligned span of a string diff is colored by its kind only:
\* an equal span is uncolored on both sides, an insert span colors only the
\* new side as added, a delete span only the old side as removed, a replace
\* span whose sides are equal after lowercasing is minor-highlighted on both
\* sides and any other replace span is removed on the old side and added on
\* the new one; the spans are, in order, the two texts.  "Abc" against "abc"
\* uses the minor highlight on both sides and neither the added nor the
\* removed role.
C22_SpansColoredByKind ==
    (StringDiff /\ call.ui_color)
        => /\ pc = "diffed"
           /\ TextOf(a_pieces(call.spans)) = DiffedText(call.a)
           /\ TextOf(b_pieces(call.spans)) = DiffedText(call.b)
           /\ \A k \in 1..Len(call.spans) :
                 LET span == call.spans[k]
                 IN  CASE span.op = "equal" ->
                            /\ RolesOf(span.a) = { "" } /\ RolesOf(span.b) = { "" }
                            /\ TextOf(span.a) = TextOf(span.b)
                       [] span.op = "insert" ->
                            span.a = << >> /\ ColoredAs(span.b, "text_diff_added")
                       [] span.op = "delete" ->
                            ColoredAs(span.a, "text_diff_removed") /\ span.b = << >>
                       [] span.op = "replace" ->
                            IF lowerStr(TextOf(span.a)) = lowerStr(TextOf(span.b))
                            THEN /\ ColoredAs(span.a, "text_highlight_minor")
                                 /\ ColoredAs(span.b, "text_highlight_minor")
                            ELSE /\ ColoredAs(span.a, "text_diff_removed")
                                 /\ ColoredAs(span.b, "text_diff_added")
                       [] OTHER -> FALSE
           /\ (call.a = Text(<< "A", "b", "c" >>) /\ call.b = Text(<< "a", "b", "c" >>))
                 => /\ RolesOf(a_pieces(call.spans)) = { "", "text_highlight_minor" }
                    /\ RolesOf(b_pieces(call.spans)) = { "", "text_highlight_minor" }
                    /\ call.a_out =
                          _colorize(DiffColors["text_highlight_minor"].codes, << "A" >>).value
                              \o << "b", "c" >>
                    /\ call.b_out =
                          _colorize(DiffColors["text_highlight_minor"].codes, << "a" >>).value
                              \o << "b", "c" >>

\* "Abc" has been diffed against "abc" with color on.
C22_Witness ==
    /\ StringDiff /\ call.ui_color
    /\ call.a = Text(<< "A", "b", "c" >>) /\ call.b = Text(<< "a", "b", "c" >>)
    /\ \E k \in 1..Len(call.spans) : call.spans[k].op = "replace"
    /\ \E k \in 1..Len(call.spans) : call.spans[k].op = "equal"

\* One of the two values is not a string: no word-level diff.
ValueDiff == Diffed /\ (~is_basestring(call.a) \/ ~is_basestring(call.b))

\* The two outputs are the texts of the values, colorized whole as the roles
\* (as they are for the role "").
WholeValues(a_role, b_role) ==
    call.spans = << Span("", << Piece(a_role, unicode(call.a).value) >>,
                             << Piece(b_role, unicode(call.b).value) >>) >>

\* C23 as stated: when either value is not a string the two values are
\* compared by whole-value equality; equal values are returned uncolored and
\* non-matching values are each colorized whole with the "error" role.
C23_Original ==
    (ValueDiff /\ call.ui_color)
        => IF call.a = call.b
           THEN WholeValues("", "")
           ELSE WholeValues("text_error", "text_error")

\* What the conversion of the two values to text raises, "" when both are
\* converted.
ConversionRaises ==
    IF unicode(call.a).raised # "" THEN unicode(call.a).raised
    ELSE unicode(call.b).raised

\* C23: when either value is not a string no word-level diff is performed:
\* both values are converted to text, and colordiff raises what the
\* conversion raises; the texts of the two values are compared; when the
\* texts are equal they are returned uncolored, otherwise the old text is
\* colorized whole as removed and the new text whole as added.  With color
\* off the two texts are returned uncolored.
C23_ValuesComparedAsTexts ==
    ValueDiff
        => IF ConversionRaises # ""
           THEN pc = ConversionRaises /\ call.spans = << >>
           ELSE /\ pc = "diffed"
                /\ Len(call.spans) = 1 /\ call.spans[1].op = ""
                /\ IF ~call.ui_color \/ unicode(call.a).value = unicode(call.b).value
                   THEN /\ WholeValues("", "")
                        /\ call.a_out = unicode(call.a).value
                        /\ call.b_out = unicode(call.b).value
                   ELSE /\ WholeValues("text_diff_removed", "text_diff_added")
                        /\ call.a_out =
                              _colorize(DiffColors["text_diff_removed"].codes,
                                        unicode(call.a).value).value
                        /\ call.b_out =
                              _colorize(DiffColors["text_diff_added"].codes,
                                        unicode(call.b).value).value

\* A number has been diffed, with color on, against the string of its
\* digits.
C23_Witness ==
    /\ ValueDiff /\ call.ui_color
    /\ pc = "diffed"
    /\ call.a = Number(1) /\ call.b = Text(<< "1" >>)

\* C27 as stated: for all strings old and new without escape sequences,
\* with color enabled, stripping the escape sequences from the two outputs
\* of colordiff(old, new) gives back old and new, and no whitespace
\* character of either string lies inside a colored span.
C27_Original ==
    (StringDiff /\ call.ui_color /\ Plain(call.a.s) /\ Plain(call.b.s))
        => /\ pc = "diffed"
           /\ uncolorize(call.a_out) = call.a.s
           /\ uncolorize(call.b_out) = call.b.s
           /\ \A pieces \in { a_pieces(call.spans), b_pieces(call.spans) } :
                 \A k \in 1..Len(pieces) :
                     pieces[k].role # ""
                         => \A i \in 1..Len(pieces[k].text) : ~isspace(pieces[k].text[i])


(***************************************************************************)
(* split_into_lines                                                        *)
(***************************************************************************)
\* split_into_lines has returned its result.
LinesReturned == call.fn = "split_into_lines" /\ pc = "returned"

\* The width the k-th of n lines is promised to keep.
LineWidth(k, n) ==
    IF k = 1 THEN call.width_tuple[1]
    ELSE IF k = n THEN call.width_tuple[3]
    ELSE call.width_tuple[2]

\* C24 as stated: for all word lists and width tuples the first returned
\* line is no longer than first_width, the last no longer than last_width
\* and every other line no longer than middle_width, the lengths measured
\* on the escape-stripped text; the empty trailing line makes the last line
\* meet its budget.
C24_Original ==
    LinesReturned
        => /\ \A k \in 1..Len(call.col) :
                 color_len(call.col[k]) <= LineWidth(k, Len(call.col))
           /\ Len(call.raw[Len(call.raw)]) <= call.width_tuple[3]

\* The width a line was filled against: the first, or the middle one.
Budget(k) == IF k = 1 THEN call.width_tuple[1] ELSE call.width_tuple[2]

\* C25: split_into_lines neither loses, duplicates nor reorders words:
\* the returned lines joined in order and split on whitespace are the input
\* words, for 'raw' and for 'col'; the two lists have the same number of
\* lines and corresponding lines the same number of words; and the words
\* are packed greedily: a line is started only with a word that would have
\* made the line before it longer than that line's budget.
C25_WordsKeptAndPackedGreedily ==
    LinesReturned
        => /\ split(join_words(call.raw)) = split(call.raw_string)
           /\ split(join_words(call.col)) = split(call.string)
           /\ Len(call.col) = Len(call.raw)
           /\ \A k \in 1..Len(call.raw) :
                 /\ Len(split(call.col[k])) = Len(split(call.raw[k]))
                 /\ uncolorize(call.col[k]) = call.raw[k]
           /\ \A k \in 1..(Len(call.raw) - 1) :
                 call.raw[k + 1] # << >>
                     => LET word == split(call.raw[k + 1])[1]
                            pot  == IF k = 1 /\ call.raw[k] = << >> THEN word
                                    ELSE call.raw[k] \o << " " >> \o word
                        IN  Len(pot) > Budget(k)

\* Colorized words were packed into two lines or more, two words on one
\* of them.
C25_Witness ==
    /\ LinesReturned
    /\ call.string # call.raw_string
    /\ Len(call.raw) >= 2
    /\ \A k \in 1..Len(call.raw) : call.raw[k] # << >>
    /\ \E k \in 1..Len(call.raw) : Len(split(call.raw[k])) = 2


(***************************************************************************)
(* The candidate-list prompt                                               *)
(***************************************************************************)
\* What an empty line at the waiting candidate-list prompt leads to.
EmptyAtList ==
    LET v == read_response(prompt, << >>)
    IN  IF v.kind = "none" THEN Reprompt
        ELSE session_step(after_list(v, candidates, rec, singleton), singleton)

\* C28: input_options with a numeric range (low, high), require unset and
\* no default from the caller marks no option letter as default and returns
\* the integer low for an empty response; so an empty response at the
\* candidate-list prompt selects candidate 1 and leads to the change view
\* of candidates[0].
C28_EmptyAtListSelectsFirst ==
    pc = "list" =>
        /\ prompt.numrange = NumRange(1, Len(candidates))
        /\ ~prompt.require
        /\ NoneMarked(prompt)
        /\ read_response(prompt, << >>) = IntValue(prompt.numrange.low)
        /\ EmptyAtList.out # << >>
        /\ Head(EmptyAtList.out) = ChangeShown(candidates[1])
        /\ EventsOf(EmptyAtList.out, "change") = { 1 }
        /\ EmptyAtList.pc = "confirm" => EmptyAtList.match = candidates[1]
        /\ EmptyAtList.pc = "returned" => EmptyAtList.result = Match(candidates[1])

\* Candidate 1 of a list of several was selected at the candidate-list
\* prompt and its change view is shown for confirmation.
C28_Witness ==
    /\ pc = "confirm"
    /\ sel = IntValue(1)
    /\ Len(candidates) > 1
    /\ match = candidates[1]
    /\ Head(out) = ChangeShown(candidates[1])


\* C29: in singleton mode choose_candidate never returns TRACKS or ALBUMS
\* whatever the operator answers, because neither option is offered at any
\* of its prompts: a line starting with 't' or 'g' is rejected; so neither
\* `assert not singleton` in choose_candidate nor the assertions of
\* choose_item on its choice are reached, and choose_item returns only
\* skip, as-is or a track candidate.
C29_SingletonNeverSplitsOrGroups ==
    singleton =>
        /\ pc # "AssertionError"
        /\ pc \in {"nocand", "list", "confirm"}
              => /\ prompt.letters \cap {"t", "g"} = {}
                 /\ read_response(prompt, << "t" >>) = NoValue
                 /\ read_response(prompt, << "g" >>) = NoValue
        /\ pc = "returned"
              => \/ result \in {Action("SKIP"), Action("ASIS")}
                 \/ /\ result.kind = "match"
                    /\ \E k \in 1..Len(candidates) : result.match = candidates[k]

\* At the candidate-list prompt of an item a line was rejected, and 't' and
\* 'g' are among the lines it rejects.
C29_Witness ==
    /\ singleton
    /\ pc = "list"
    /\ out = << FallbackShown >>
    /\ sel = NoValue
    /\ read_response(prompt, << "t" >>) = NoValue


(***************************************************************************)
(* The role table COLORS                                                   *)
(***************************************************************************)
\* The names the global COLORS holds; none before it is built.
RolesIn(COLORS) == IF COLORS.none THEN {} ELSE DOMAIN COLORS.dict

\* C30 as stated: over any sequence of colorize calls of one process the
\* role table COLORS is built at most once, by the first call made while
\* color is enabled, and holds an entry for every name of COLOR_NAMES once
\* it is non-empty; later calls leave it unchanged, and calls made while
\* color is disabled neither build nor modify it.
C30_Original ==
    [][call.fn = "colorize"
         => /\ call'.COLORS # call.COLORS
                  => /\ pc = "idle" /\ pc' # "idle"
                     /\ call.ui_color
                     /\ RolesIn(call.COLORS) = {}
            /\ RolesIn(call'.COLORS) # {}
                  => RolesIn(call'.COLORS) = { COLOR_NAMES[k] : k \in 1..Len(COLOR_NAMES) }]_vars

====
